---- MODULE Spec2Model ----
(***************************************************************************)
(* Export pipeline of crewagent-builder-frontend: workflow graph compiler  *)
(* (src/lib/workflow-graph-v11.ts), agent manifest builder, package        *)
(* manifest builder and export assembler.                                  *)
(*                                                                         *)
(* Strings are sequences of one-character strings, so that trimming,       *)
(* pattern tests, concatenation and localeCompare are computed and not     *)
(* assumed.  Messages (errors, warnings) are records [kind, text, n]       *)
(* holding the message's template and its interpolated values.             *)
(***************************************************************************)
EXTENDS Integers, Sequences, FiniteSets, TLC

VARIABLES pc, call, result

vars == <<pc, call, result>>

\* ---------------------------------------------------------------- bounds
MaxNodes == 3
MaxEdges == 2
MaxListed == 3
MaxAgents == 3
MaxWorkflows == 2
MaxAssets == 2
\* uniqueAgentId tries the suffixes -2 .. -(SuffixLimit - 1) before it falls
\* back to the clock; the source's limit is 1000, scaled here so that the
\* exhaustion of the suffixes is reachable
SuffixLimit == 3

\* --------------------------------------------------------------- strings
None == <<>>
Some(x) == <<x>>

Digits == {"0", "1", "2", "3", "4", "5", "6", "7", "8", "9"}
Lower == {"a", "b", "c", "d", "e", "f", "g", "h", "i", "j", "k", "l", "m",
          "n", "o", "p", "q", "r", "s", "t", "u", "v", "w", "x", "y", "z"}
Upper == {"D", "Q"}

\* The characters localeCompare meets in the model, in collation order:
\* whitespace, punctuation, symbols, digits, letters.  Upper-case letters
\* are kept out of compared strings (case is a tertiary difference, not a
\* position in this order).
CollationOrder ==
  <<" ", "_", "-", ":", "?", ".", "/", "#", ">",
    "0", "1", "2", "3", "4", "5", "6", "7", "8", "9",
    "a", "b", "c", "d", "e", "f", "g", "h", "i", "j", "k", "l", "m",
    "n", "o", "p", "q", "r", "s", "t", "u", "v", "w", "x", "y", "z">>

CollationRank(c) == CHOOSE i \in 1..Len(CollationOrder) : CollationOrder[i] = c

RECURSIVE localeCompare(_, _)
\* a.localeCompare(b): -1, 0 or 1.
localeCompare(a, b) ==
  IF a = <<>> THEN (IF b = <<>> THEN 0 ELSE -1)
  ELSE IF b = <<>> THEN 1
  ELSE IF CollationRank(Head(a)) < CollationRank(Head(b)) THEN -1
  ELSE IF CollationRank(Head(a)) > CollationRank(Head(b)) THEN 1
  ELSE localeCompare(Tail(a), Tail(b))

RECURSIVE trimStart(_)
trimStart(s) == IF s # <<>> /\ Head(s) = " " THEN trimStart(Tail(s)) ELSE s

RECURSIVE trimEnd(_)
trimEnd(s) ==
  IF s # <<>> /\ s[Len(s)] = " " THEN trimEnd(SubSeq(s, 1, Len(s) - 1)) ELSE s

\* String.prototype.trim
trim(s) == trimEnd(trimStart(s))

\* /^[A-Za-z0-9][A-Za-z0-9._:-]*$/
IdPattern(id) ==
  /\ id # <<>>
  /\ id[1] \in Digits \cup Lower \cup Upper
  /\ \A i \in 2..Len(id) : id[i] \in Digits \cup Lower \cup Upper \cup {".", "_", ":", "-"}

NODE_ID_PATTERN(id) == IdPattern(id)

\* String(n) for the small naturals of the model
DigitChar(n) ==
  CASE n = 0 -> "0" [] n = 1 -> "1" [] n = 2 -> "2" [] n = 3 -> "3" [] n = 4 -> "4"
    [] n = 5 -> "5" [] n = 6 -> "6" [] n = 7 -> "7" [] n = 8 -> "8" [] n = 9 -> "9"

RECURSIVE NumberToString(_)
\* String(n) of an integer
NumberToString(n) ==
  IF n < 0 THEN <<"-">> \o NumberToString(0 - n)
  ELSE IF n < 10 THEN <<DigitChar(n)>>
  ELSE NumberToString(n \div 10) \o <<DigitChar(n % 10)>>

Msg(kind, text, n) == [kind |-> kind, text |-> text, n |-> n]

\* -------------------------------------------------------------- sequences
RECURSIVE InsertByKey(_, _)
\* x goes after every element whose key does not compare greater than its key
InsertByKey(sorted, x) ==
  IF sorted = <<>> THEN <<x>>
  ELSE IF localeCompare(Head(sorted).key, x.key) > 0 THEN <<x>> \o sorted
  ELSE <<Head(sorted)>> \o InsertByKey(Tail(sorted), x)

RECURSIVE SortByKey(_)
\* Array.prototype.sort((a, b) => key(a).localeCompare(key(b))) over
\* [key, val] pairs; the sort is stable
SortByKey(pairs) ==
  IF pairs = <<>> THEN <<>>
  ELSE InsertByKey(SortByKey(SubSeq(pairs, 1, Len(pairs) - 1)), pairs[Len(pairs)])

\* ids.sort((a, b) => a.localeCompare(b))
SortIds(ids) ==
  LET sorted == SortByKey([i \in 1..Len(ids) |-> [key |-> ids[i], val |-> ids[i]]])
  IN [i \in 1..Len(sorted) |-> sorted[i].val]

Range(s) == {s[i] : i \in 1..Len(s)}

\* ------------------------------------------------- workflow graph compiler
\* A builder node is [id, agentId]; a builder edge is
\* [id, source, target, label, isDefault].  An absent or non-string field is
\* the empty string, which the code treats the same way.

S_steps == <<"s", "t", "e", "p", "s", "/">>
S_md == <<".", "m", "d">>
S_next == <<"n", "e", "x", "t">>
S_branch == <<"b", "r", "a", "n", "c", "h", "-">>
S_arrow == <<"-", ">">>

\* variant: the key is always built from the endpoints and the index
stableEdgeSortKey_IndexOnly(edge, fallbackIndex) ==
  edge.source \o S_arrow \o edge.target \o <<"#">> \o NumberToString(fallbackIndex)

\* `${source}->${target}#${fallbackIndex}` unless the edge has a non-blank id
stableEdgeSortKey(edge, fallbackIndex) ==
  LET id == trim(edge.id)
  IN IF id # <<>> THEN id
     ELSE edge.source \o S_arrow \o edge.target \o <<"#">> \o NumberToString(fallbackIndex)

RECURSIVE MapKeys(_, _)
\* Array.from(nodesById.keys()): ids in order of first insertion
MapKeys(nodes, seen) ==
  IF nodes = <<>> THEN <<>>
  ELSE LET id == Head(nodes).id
       IN IF id = <<>> \/ id \in seen THEN MapKeys(Tail(nodes), seen)
          ELSE <<id>> \o MapKeys(Tail(nodes), seen \cup {id})

\* nodesById.get(id): the last node set under that id
MapGet(nodes, id) ==
  nodes[CHOOSE i \in 1..Len(nodes) :
          /\ nodes[i].id = id
          /\ \A j \in (i + 1)..Len(nodes) : nodes[j].id # id]

\* the error pushed for the edge at array index idx, if any
EdgeCheck(edge, idx, idSet) ==
  IF edge.source = <<>> \/ edge.target = <<>> THEN Some(Msg("edge-incomplete", <<>>, idx))
  ELSE IF edge.source \notin idSet THEN Some(Msg("edge-source-missing", edge.source, idx))
  ELSE IF edge.target \notin idSet THEN Some(Msg("edge-target-missing", edge.target, idx))
  ELSE None

RECURSIVE EdgeErrorsFrom_FirstOnly(_, _, _)
\* variant: the loop over the edges ends at the first edge it rejects
EdgeErrorsFrom_FirstOnly(edges, i, idSet) ==
  IF i > Len(edges) THEN <<>>
  ELSE IF EdgeCheck(edges[i], i - 1, idSet) # None THEN EdgeCheck(edges[i], i - 1, idSet)
  ELSE EdgeErrorsFrom_FirstOnly(edges, i + 1, idSet)

RECURSIVE EdgeErrorsFrom(_, _, _)
EdgeErrorsFrom(edges, i, idSet) ==
  IF i > Len(edges) THEN <<>>
  ELSE EdgeCheck(edges[i], i - 1, idSet) \o EdgeErrorsFrom(edges, i + 1, idSet)

RECURSIVE ValidEdgesFrom(_, _, _)
\* validEdges: {edge, idx} records, idx the 0-based index in the input array
ValidEdgesFrom(edges, i, idSet) ==
  IF i > Len(edges) THEN <<>>
  ELSE (IF EdgeCheck(edges[i], i - 1, idSet) = None
          THEN <<[edge |-> edges[i], idx |-> i - 1]>> ELSE <<>>)
       \o ValidEdgesFrom(edges, i + 1, idSet)

\* variant: an edge from a node to itself is not counted
Indegree_IgnoringSelfLoops(validEdges, id) ==
  Cardinality({i \in 1..Len(validEdges) :
                 validEdges[i].edge.target = id /\ validEdges[i].edge.source # id})

Indegree(validEdges, id) ==
  Cardinality({i \in 1..Len(validEdges) : validEdges[i].edge.target = id})

RECURSIVE Outgoing(_, _)
Outgoing(validEdges, id) ==
  IF validEdges = <<>> THEN <<>>
  ELSE (IF Head(validEdges).edge.source = id THEN <<Head(validEdges).edge.target>> ELSE <<>>)
       \o Outgoing(Tail(validEdges), id)

RECURSIVE Relax(_, _, _)
\* the inner loop over outgoing.get(id): decrement and enqueue at zero
Relax(targets, queue, deg) ==
  IF targets = <<>> THEN [queue |-> queue, deg |-> deg]
  ELSE LET to == Head(targets)
           value == deg[to] - 1
       IN Relax(Tail(targets),
                IF value = 0 THEN Append(queue, to) ELSE queue,
                [deg EXCEPT ![to] = value])

RECURSIVE KahnVisited(_, _, _, _)
\* the while loop of the topological traversal; returns `visited`
KahnVisited(queue, deg, visited, validEdges) ==
  IF queue = <<>> THEN visited
  ELSE LET r == Relax(Outgoing(validEdges, Head(queue)), Tail(queue), deg)
       IN KahnVisited(r.queue, r.deg, visited + 1, validEdges)

IsFlaggedDefault(rec) == rec.edge.isDefault

RECURSIVE DistinctSeq(_, _)
DistinctSeq(s, seen) ==
  IF s = <<>> THEN <<>>
  ELSE IF Head(s) \in seen THEN DistinctSeq(Tail(s), seen)
  ELSE <<Head(s)>> \o DistinctSeq(Tail(s), seen \cup {Head(s)})

\* label of the edge at 0-based position idx of its sorted group
EdgeLabel(edge, idx, multi) ==
  LET rawLabel == trim(edge.label)
  IN IF rawLabel # <<>> THEN rawLabel
     ELSE IF multi THEN S_branch \o NumberToString(idx + 1)
     ELSE S_next

\* variant: without the fall-back to the first edge of the group
ChosenDefault_FlaggedOnly(group) ==
  LET defaults == SelectSeq(group, IsFlaggedDefault)
  IN IF Len(group) > 1 /\ defaults # <<>> THEN defaults[1].idx ELSE -1

\* chosenDefault of a sorted group, as the input index of the chosen edge
\* (-1 for null); the code compares edge objects by identity
ChosenDefault(group) ==
  LET defaults == SelectSeq(group, IsFlaggedDefault)
  IN IF Len(group) > 1
       THEN (IF defaults # <<>> THEN defaults[1].idx ELSE group[1].idx)
       ELSE -1

\* variant: the bucket is left in input order
SortedGroup_Unsorted(validEdges, source) ==
  LET FromSource(rec) == rec.edge.source = source
  IN SelectSeq(validEdges, FromSource)

SortedGroup(validEdges, source) ==
  LET FromSource(rec) == rec.edge.source = source
      bucket == SelectSeq(validEdges, FromSource)
      sorted == SortByKey([i \in 1..Len(bucket) |->
                   [key |-> stableEdgeSortKey(bucket[i].edge, bucket[i].idx), val |-> bucket[i]]])
  IN [i \in 1..Len(sorted) |-> sorted[i].val]

\* variant: every flagged edge of a group keeps its flag
MappedGroup_KeepFlags(group) ==
  LET multi == Len(group) > 1
  IN [i \in 1..Len(group) |->
        [id |-> trim(group[i].edge.id),
         from |-> group[i].edge.source,
         to |-> group[i].edge.target,
         label |-> EdgeLabel(group[i].edge, i - 1, multi),
         isDefault |-> multi /\ (group[i].edge.isDefault
                                   \/ (ChosenDefault(group) = group[i].idx))]]

MappedGroup(group) ==
  LET multi == Len(group) > 1
      chosen == ChosenDefault(group)
  IN [i \in 1..Len(group) |->
        [id |-> trim(group[i].edge.id),
         from |-> group[i].edge.source,
         to |-> group[i].edge.target,
         label |-> EdgeLabel(group[i].edge, i - 1, multi),
         isDefault |-> multi /\ chosen = group[i].idx]]

GroupWarnings(group, source) ==
  LET defaults == SelectSeq(group, IsFlaggedDefault)
  IN IF Len(group) > 1 /\ Len(defaults) > 1
       THEN <<Msg("multiple-default-edges", source, Len(defaults))>>
       ELSE <<>>

RECURSIVE MappedEdges(_, _)
MappedEdges(sources, validEdges) ==
  IF sources = <<>> THEN <<>>
  ELSE MappedGroup(SortedGroup(validEdges, Head(sources)))
       \o MappedEdges(Tail(sources), validEdges)

RECURSIVE EdgeWarnings(_, _)
EdgeWarnings(sources, validEdges) ==
  IF sources = <<>> THEN <<>>
  ELSE GroupWarnings(SortedGroup(validEdges, Head(sources)), Head(sources))
       \o EdgeWarnings(Tail(sources), validEdges)

MappedNodes(nodes, nodeIds) ==
  LET sorted == SortIds(nodeIds)
  IN [i \in 1..Len(sorted) |->
        [id |-> sorted[i],
         file |-> S_steps \o sorted[i] \o S_md,
         agentId |-> trim(MapGet(nodes, sorted[i]).agentId)]]

\* variant: the start nodes are left in insertion order
StartNodes_Unsorted(nodeIds, validEdges) ==
  LET IsStart(id) == Indegree(validEdges, id) = 0
  IN SelectSeq(nodeIds, IsStart)

\* nodeIds.filter(indegree 0).sort(localeCompare)
StartNodes(nodeIds, validEdges) ==
  LET IsStart(id) == Indegree(validEdges, id) = 0
  IN SortIds(SelectSeq(nodeIds, IsStart))

\* variant: the visited count is tested with > instead of !==
CycleDetected_GreaterThan(nodeIds, validEdges) ==
  LET IsStart(id) == Indegree(validEdges, id) = 0
      visited == KahnVisited(SelectSeq(nodeIds, IsStart),
                             [id \in Range(nodeIds) |-> Indegree(validEdges, id)], 0, validEdges)
  IN validEdges # <<>> /\ visited > Len(nodeIds)

\* the topological traversal, run only when there is a valid edge
CycleDetected(nodeIds, validEdges) ==
  LET IsStart(id) == Indegree(validEdges, id) = 0
      visited == KahnVisited(SelectSeq(nodeIds, IsStart),
                             [id \in Range(nodeIds) |-> Indegree(validEdges, id)], 0, validEdges)
  IN validEdges # <<>> /\ visited # Len(nodeIds)

buildWorkflowGraphV11(nodes, edges) ==
  IF nodes = <<>>
    THEN [graph |-> None, warnings |-> <<>>, errors |-> <<Msg("no-nodes", <<>>, 0)>>]
  ELSE
    LET nodeIds == MapKeys(nodes, {})
        idSet == Range(nodeIds)
        duplicates == Len(nodes) - Len(nodeIds)
        IsInvalid(id) == ~NODE_ID_PATTERN(id)
        invalidIds == SelectSeq(nodeIds, IsInvalid)
        validEdges == ValidEdgesFrom(edges, 1, idSet)
        startNodes == StartNodes(nodeIds, validEdges)
        entryNodeId == IF startNodes # <<>> THEN startNodes[1] ELSE <<>>
        sources == SortIds(DistinctSeq([i \in 1..Len(validEdges) |-> validEdges[i].edge.source], {}))
        errors ==
          (IF invalidIds # <<>> THEN <<Msg("invalid-node-ids", invalidIds, Len(invalidIds))>> ELSE <<>>)
          \o EdgeErrorsFrom(edges, 1, idSet)
          \o (IF CycleDetected(nodeIds, validEdges) THEN <<Msg("cycle", <<>>, 0)>> ELSE <<>>)
          \o (IF entryNodeId = <<>> THEN <<Msg("no-entry-node", <<>>, 0)>> ELSE <<>>)
        warnings ==
          (IF duplicates > 0 THEN <<Msg("duplicate-node-ids", <<>>, duplicates)>> ELSE <<>>)
          \o (IF Len(startNodes) > 1 THEN <<Msg("multiple-start-nodes", startNodes[1], 0)>> ELSE <<>>)
    IN IF errors # <<>>
         THEN [graph |-> None, warnings |-> warnings, errors |-> errors]
         ELSE [graph |-> Some([entryNodeId |-> entryNodeId,
                               nodes |-> MappedNodes(nodes, nodeIds),
                               edges |-> MappedEdges(sources, validEdges)]),
               warnings |-> warnings \o EdgeWarnings(sources, validEdges),
               errors |-> errors]

\* ------------------------------------------------ package manifest builder
\* A workflow list item is [present, id, isDefault]; present = FALSE is a
\* null entry of the list.  Strings projectName, createdAt and version are
\* character sequences; an absent version is VersionAbsent.

S_workflows == <<"w", "o", "r", "k", "f", "l", "o", "w", "s", "/">>
S_workflow_md == <<"/", "w", "o", "r", "k", "f", "l", "o", "w", ".", "m", "d">>
S_graph_json ==
  <<"/", "w", "o", "r", "k", "f", "l", "o", "w", ".", "g", "r", "a", "p", "h", ".", "j", "s", "o", "n">>
S_agents_json == <<"a", "g", "e", "n", "t", "s", ".", "j", "s", "o", "n">>
S_bmad_json == <<"b", "m", "a", "d", ".", "j", "s", "o", "n">>
S_assets == <<"a", "s", "s", "e", "t", "s", "/">>
S_version == <<"0", ".", "1", ".", "0">>
VersionAbsent == <<"undefined">>

WORKFLOW_ID_PATTERN(id) == IdPattern(id)

buildWorkflowPaths(id) ==
  [workflow |-> S_workflows \o id \o S_workflow_md,
   graph |-> S_workflows \o id \o S_graph_json]

RECURSIVE ById(_, _)
\* the values of the byId map: the first item of each id, in list order
ById(workflows, seen) ==
  IF workflows = <<>> THEN <<>>
  ELSE LET w == Head(workflows)
       IN IF ~w.present \/ w.id \in seen THEN ById(Tail(workflows), seen)
          ELSE <<w>> \o ById(Tail(workflows), seen \cup {w.id})

RECURSIVE DuplicateWorkflowErrors(_, _)
DuplicateWorkflowErrors(workflows, seen) ==
  IF workflows = <<>> THEN <<>>
  ELSE LET w == Head(workflows)
       IN IF ~w.present THEN DuplicateWorkflowErrors(Tail(workflows), seen)
          ELSE IF w.id \in seen
            THEN <<Msg("duplicate-workflow-id", <<>>, w.id)>>
                 \o DuplicateWorkflowErrors(Tail(workflows), seen)
          ELSE DuplicateWorkflowErrors(Tail(workflows), seen \cup {w.id})

RECURSIVE InsertById(_, _)
InsertById(sorted, w) ==
  IF sorted = <<>> THEN <<w>>
  ELSE IF Head(sorted).id - w.id > 0 THEN <<w>> \o sorted
  ELSE <<Head(sorted)>> \o InsertById(Tail(sorted), w)

RECURSIVE SortById(_)
\* list.sort((a, b) => a.id - b.id)
SortById(list) ==
  IF list = <<>> THEN <<>>
  ELSE InsertById(SortById(SubSeq(list, 1, Len(list) - 1)), list[Len(list)])

\* variant: without a flagged workflow the last one is taken
SelectEntry_LastWhenNone(ordered) ==
  LET IsDefault(w) == w.isDefault
      defaults == SortById(SelectSeq(ordered, IsDefault))
  IN [entry |-> IF defaults # <<>> THEN defaults[1] ELSE ordered[Len(ordered)],
      warnings |->
        (IF Len(defaults) > 1 THEN <<Msg("multiple-default-workflows", <<>>, Len(defaults))>> ELSE <<>>)
        \o (IF defaults = <<>> THEN <<Msg("no-default-workflow", <<>>, ordered[1].id)>> ELSE <<>>)]

\* the entry workflow and the warnings of its selection
SelectEntry(ordered) ==
  LET IsDefault(w) == w.isDefault
      defaults == SortById(SelectSeq(ordered, IsDefault))
  IN [entry |-> IF defaults # <<>> THEN defaults[1] ELSE ordered[1],
      warnings |->
        (IF Len(defaults) > 1 THEN <<Msg("multiple-default-workflows", <<>>, Len(defaults))>> ELSE <<>>)
        \o (IF defaults = <<>> THEN <<Msg("no-default-workflow", <<>>, ordered[1].id)>> ELSE <<>>)]

buildBmadManifestV11(projectName, workflows, createdAtRaw, versionRaw) ==
  LET rawName == trim(projectName)
      nameWarnings == IF rawName = <<>> THEN <<Msg("project-name-empty", <<>>, 0)>> ELSE <<>>
  IN IF workflows = <<>>
       THEN [manifest |-> None, warnings |-> nameWarnings,
             errors |-> <<Msg("workflows-empty", <<>>, 0)>>]
     ELSE
       LET ordered == SortById(ById(workflows, {}))
           IsInvalid(w) == ~WORKFLOW_ID_PATTERN(trim(NumberToString(w.id)))
           invalid == SelectSeq(ordered, IsInvalid)
           createdAt == trim(createdAtRaw)
           version == trim(IF versionRaw = VersionAbsent THEN S_version ELSE versionRaw)
           errors ==
             DuplicateWorkflowErrors(workflows, {})
             \o (IF invalid # <<>> THEN <<Msg("invalid-workflow-ids", <<>>, Len(invalid))>> ELSE <<>>)
             \o (IF createdAt = <<>> THEN <<Msg("createdAt-empty", <<>>, 0)>> ELSE <<>>)
             \o (IF version = <<>> THEN <<Msg("version-empty", <<>>, 0)>> ELSE <<>>)
       IN IF ordered = <<>>
            THEN [manifest |-> None, warnings |-> nameWarnings,
                  errors |-> <<Msg("workflows-no-valid-entry", <<>>, 0)>>]
          ELSE IF errors # <<>>
            THEN [manifest |-> None, warnings |-> nameWarnings, errors |-> errors]
          ELSE
            LET sel == SelectEntry(ordered)
                entryPaths == buildWorkflowPaths(trim(NumberToString(sel.entry.id)))
            IN [manifest |->
                  Some([entry |-> [workflow |-> entryPaths.workflow,
                                   graph |-> entryPaths.graph,
                                   agents |-> S_agents_json,
                                   assetsDir |-> S_assets],
                        workflows |->
                          [i \in 1..Len(ordered) |->
                             LET id == trim(NumberToString(ordered[i].id))
                             IN [id |-> id,
                                 workflow |-> buildWorkflowPaths(id).workflow,
                                 graph |-> buildWorkflowPaths(id).graph]]]),
                warnings |-> nameWarnings \o sel.warnings,
                errors |-> errors]

\* --------------------------------------------------- agent manifest builder
\* The raw text is modelled by what JSON.parse makes of it: kind "blank"
\* (empty after trim), "invalid" (parse throws), "scalar" (neither array nor
\* object), "array" (legacy records) or "object" (v1.1 manifest).  An item is
\* [isObject, name, id].  The verdict of the compiled JSON schema on the
\* normalised manifest is an input: the list of Ajv errors, empty when valid.

S_agent == <<"a", "g", "e", "n", "t">>
S_11 == <<"1", ".", "1">>

isValidAgentId(id) == IdPattern(id)

toLowerCase(c) == CASE c = "D" -> "d" [] c = "Q" -> "q" [] OTHER -> c

RECURSIVE CollapseDashes(_)
\* .replace(/-+/g, "-")
CollapseDashes(s) ==
  IF Len(s) < 2 THEN s
  ELSE IF s[1] = "-" /\ s[2] = "-" THEN CollapseDashes(Tail(s))
  ELSE <<s[1]>> \o CollapseDashes(Tail(s))

RECURSIVE StripLeadingDashes(_)
StripLeadingDashes(s) == IF s # <<>> /\ Head(s) = "-" THEN StripLeadingDashes(Tail(s)) ELSE s

RECURSIVE StripTrailingDashes(_)
StripTrailingDashes(s) ==
  IF s # <<>> /\ s[Len(s)] = "-" THEN StripTrailingDashes(SubSeq(s, 1, Len(s) - 1)) ELSE s

slugifyAgentId(input) ==
  LET trimmed == trim(input)
      lowered == [i \in 1..Len(trimmed) |-> toLowerCase(trimmed[i])]
      \* each run of other characters becomes "-"; runs of "-" collapse next
      replaced == [i \in 1..Len(lowered) |->
                     IF lowered[i] \in Lower \cup Digits \cup {".", "_", ":", "-"}
                       THEN lowered[i] ELSE "-"]
      cleaned == StripTrailingDashes(StripLeadingDashes(CollapseDashes(replaced)))
  IN IF cleaned = <<>> THEN S_agent
     ELSE IF cleaned[1] \in Lower \cup Digits THEN cleaned
     ELSE S_agent \o <<"-">> \o cleaned

RECURSIVE NextFreeId(_, _, _, _)
\* the for loop over the suffixes, then `${base}-${Date.now()}`; now is the
\* reading of the clock at the call
NextFreeId(base, existingIds, i, now) ==
  IF i >= SuffixLimit THEN base \o <<"-">> \o NumberToString(now)
  ELSE IF base \o <<"-">> \o NumberToString(i) \notin existingIds
    THEN base \o <<"-">> \o NumberToString(i)
  ELSE NextFreeId(base, existingIds, i + 1, now)

uniqueAgentId(baseName, existingIds, now) ==
  LET base == slugifyAgentId(baseName)
  IN IF base \notin existingIds THEN base ELSE NextFreeId(base, existingIds, 2, now)

RECURSIVE LegacyAgents(_, _, _)
\* the forEach over a legacy array: the agents pushed, `seen` threaded
\* through; clock holds the reading of Date.now() while each record is handled
LegacyAgents(items, seen, clock) ==
  IF items = <<>> THEN <<>>
  ELSE LET item == Head(items)
           name == trim(item.name)
       IN IF ~item.isObject \/ name = <<>> THEN LegacyAgents(Tail(items), seen, Tail(clock))
          ELSE LET id == uniqueAgentId(name, seen, Head(clock))
               IN <<[id |-> id]>> \o LegacyAgents(Tail(items), seen \cup {id}, Tail(clock))

\* variant: an id that was seen before is accepted again
V11Record_NoDuplicateCheck(item, index, seen) ==
  LET id == trim(item.id)
  IN IF ~item.isObject THEN [ok |-> FALSE, msg |-> Msg("agent-not-object", <<>>, index)]
     ELSE IF id = <<>> THEN [ok |-> FALSE, msg |-> Msg("agent-id-empty", <<>>, index)]
     ELSE IF ~isValidAgentId(id) THEN [ok |-> FALSE, msg |-> Msg("agent-id-invalid", id, index)]
     ELSE [ok |-> TRUE, msg |-> Msg("", id, index)]

\* the outcome of one v1.1 record: an error or the normalised agent; the
\* message of a duplicate names the id only
V11Record(item, index, seen) ==
  LET id == trim(item.id)
  IN IF ~item.isObject THEN [ok |-> FALSE, msg |-> Msg("agent-not-object", <<>>, index)]
     ELSE IF id = <<>> THEN [ok |-> FALSE, msg |-> Msg("agent-id-empty", <<>>, index)]
     ELSE IF ~isValidAgentId(id) THEN [ok |-> FALSE, msg |-> Msg("agent-id-invalid", id, index)]
     ELSE IF id \in seen THEN [ok |-> FALSE, msg |-> Msg("agent-id-duplicate", id, 0)]
     ELSE [ok |-> TRUE, msg |-> Msg("", id, index)]

RECURSIVE V11Agents(_, _, _)
V11Agents(items, i, seen) ==
  IF i > Len(items) THEN <<>>
  ELSE LET r == V11Record(items[i], i - 1, seen)
       IN IF r.ok THEN <<[id |-> r.msg.text]>> \o V11Agents(items, i + 1, seen \cup {r.msg.text})
          ELSE V11Agents(items, i + 1, seen)

RECURSIVE V11Errors(_, _, _)
V11Errors(items, i, seen) ==
  IF i > Len(items) THEN <<>>
  ELSE LET r == V11Record(items[i], i - 1, seen)
       IN IF r.ok THEN V11Errors(items, i + 1, seen \cup {r.msg.text})
          ELSE <<r.msg>> \o V11Errors(items, i + 1, seen)

\* /^1\.1(\.\d+)?$/
SchemaVersionPattern(v) ==
  \/ v = S_11
  \/ /\ Len(v) > 4
     /\ SubSeq(v, 1, 4) = S_11 \o <<".">>
     /\ \A i \in 5..Len(v) : v[i] \in Digits

SchemaVersionWarnings(raw) ==
  LET v == trim(raw)
  IN IF v # <<>> /\ ~SchemaVersionPattern(v) THEN <<Msg("schema-version-invalid", v, 0)>>
     ELSE IF v # <<>> /\ v # S_11 THEN <<Msg("schema-version-normalised", v, 0)>>
     ELSE <<>>

\* variant: the two arms of `ok ? [] : formatAjvErrorList(...)` swapped
validateAgentsManifestV11_Swapped(ajvErrors) ==
  [ok |-> ajvErrors = <<>>, errors |-> <<>>]

\* validate(value) is false exactly when Ajv leaves errors behind
validateAgentsManifestV11(ajvErrors) ==
  [ok |-> ajvErrors = <<>>, errors |-> ajvErrors]

\* variant: a manifest without agents is built
buildAgentsManifestV11_EmptyAllowed(raw) ==
  IF raw.kind = "blank"
    THEN [manifest |-> None, warnings |-> <<>>, errors |-> <<Msg("no-agents", <<>>, 0)>>]
  ELSE IF raw.kind = "invalid"
    THEN [manifest |-> None, warnings |-> <<>>, errors |-> <<Msg("agents-json-unparsable", <<>>, 0)>>]
  ELSE
    LET agents == IF raw.kind = "array" THEN LegacyAgents(raw.items, {}, raw.clock)
                  ELSE IF raw.kind = "object" THEN V11Agents(raw.items, 1, {})
                  ELSE <<>>
        warnings == IF raw.kind = "object" THEN SchemaVersionWarnings(raw.schemaVersion) ELSE <<>>
        errors ==
          (IF raw.kind = "object" THEN V11Errors(raw.items, 1, {})
           ELSE IF raw.kind = "array" THEN <<>>
           ELSE <<Msg("agents-json-shape", <<>>, 0)>>)
        validation == validateAgentsManifestV11(raw.ajvErrors)
    IN IF errors # <<>> THEN [manifest |-> None, warnings |-> warnings, errors |-> errors]
       ELSE IF ~validation.ok
         THEN [manifest |-> None, warnings |-> warnings, errors |-> validation.errors]
       ELSE [manifest |-> Some([agents |-> agents]), warnings |-> warnings, errors |-> errors]

buildAgentsManifestV11(raw) ==
  IF raw.kind = "blank"
    THEN [manifest |-> None, warnings |-> <<>>, errors |-> <<Msg("no-agents", <<>>, 0)>>]
  ELSE IF raw.kind = "invalid"
    THEN [manifest |-> None, warnings |-> <<>>, errors |-> <<Msg("agents-json-unparsable", <<>>, 0)>>]
  ELSE
    LET agents == IF raw.kind = "array" THEN LegacyAgents(raw.items, {}, raw.clock)
                  ELSE IF raw.kind = "object" THEN V11Agents(raw.items, 1, {})
                  ELSE <<>>
        warnings == IF raw.kind = "object" THEN SchemaVersionWarnings(raw.schemaVersion) ELSE <<>>
        errors ==
          (IF raw.kind = "object" THEN V11Errors(raw.items, 1, {})
           ELSE IF raw.kind = "array" THEN <<>>
           ELSE <<Msg("agents-json-shape", <<>>, 0)>>)
          \o (IF agents = <<>> THEN <<Msg("no-agents", <<>>, 0)>> ELSE <<>>)
        validation == validateAgentsManifestV11(raw.ajvErrors)
    IN IF errors # <<>> THEN [manifest |-> None, warnings |-> warnings, errors |-> errors]
       ELSE IF ~validation.ok
         THEN [manifest |-> None, warnings |-> warnings, errors |-> validation.errors]
       ELSE [manifest |-> Some([agents |-> agents]), warnings |-> warnings, errors |-> errors]

\* ---------------------------------------------------- lenient agents parser
\* parseAgentsJson of the project page: the list shown for display.  It reads
\* the same JSON texts as the strict builder but takes ids and names as they
\* are written (no trim), drops the records it rejects and reports them in
\* one summary error.

\* the outcome of one v1.1 record of the lenient parser
LenientRecord(item, index, existing) ==
  LET id == item.id
  IN IF ~item.isObject THEN [ok |-> FALSE, msg |-> Msg("agent-not-object", <<>>, index)]
     ELSE IF id = <<>> THEN [ok |-> FALSE, msg |-> Msg("agent-id-empty", <<>>, index)]
     ELSE IF ~isValidAgentId(id) THEN [ok |-> FALSE, msg |-> Msg("agent-id-invalid", id, index)]
     ELSE IF id \in existing THEN [ok |-> FALSE, msg |-> Msg("agent-id-duplicate", id, 0)]
     ELSE [ok |-> TRUE, msg |-> Msg("", id, index)]

RECURSIVE LenientAgents(_, _, _)
\* rawAgents.map(...).filter(Boolean)
LenientAgents(items, i, existing) ==
  IF i > Len(items) THEN <<>>
  ELSE LET r == LenientRecord(items[i], i - 1, existing)
       IN IF r.ok
            THEN <<[id |-> r.msg.text]>> \o LenientAgents(items, i + 1, existing \cup {r.msg.text})
          ELSE LenientAgents(items, i + 1, existing)

RECURSIVE LenientErrors(_, _, _)
LenientErrors(items, i, existing) ==
  IF i > Len(items) THEN <<>>
  ELSE LET r == LenientRecord(items[i], i - 1, existing)
       IN IF r.ok THEN LenientErrors(items, i + 1, existing \cup {r.msg.text})
          ELSE <<r.msg>> \o LenientErrors(items, i + 1, existing)

RECURSIVE LenientLegacy(_, _, _)
\* legacy.map(...).filter(Boolean)
LenientLegacy(items, existing, clock) ==
  IF items = <<>> THEN <<>>
  ELSE LET item == Head(items)
       IN IF ~item.isObject \/ item.name = <<>>
            THEN LenientLegacy(Tail(items), existing, Tail(clock))
          ELSE LET id == uniqueAgentId(item.name, existing, Head(clock))
               IN <<[id |-> id]>> \o LenientLegacy(Tail(items), existing \cup {id}, Tail(clock))

\* the summary names the first three problems and their number
LenientSummary(errors) ==
  IF errors = <<>> THEN None
  ELSE Some(Msg("agents-data-problems",
                SubSeq(errors, 1, IF Len(errors) > 3 THEN 3 ELSE Len(errors)),
                Len(errors)))

parseAgentsJson(raw) ==
  IF raw.kind = "blank" THEN [agents |-> <<>>, error |-> None]
  ELSE IF raw.kind = "invalid"
    THEN [agents |-> <<>>, error |-> Some(Msg("agents-json-unparsable", <<>>, 0))]
  ELSE IF raw.kind = "object"
    THEN [agents |-> LenientAgents(raw.items, 1, {}),
          error |-> LenientSummary(LenientErrors(raw.items, 1, {}))]
  ELSE IF raw.kind = "array"
    THEN [agents |-> LenientLegacy(raw.items, {}, raw.clock), error |-> None]
  ELSE [agents |-> <<>>, error |-> Some(Msg("agents-json-shape", <<>>, 0))]

\* ---------------------------------------------------------- export assembler
\* A JSON text is modelled by what parseJsonObject makes of it: kind "blank",
\* "invalid", "nonobject" or "object" with the fields the assembler reads.
\* bmadJson: [kind, entry], entry = [present, workflow, graph, agents];
\* agentsJson: [kind, items]; a workflow is
\* [id, workflowMd, graphJson, stepFilesJson] with graphJson =
\* [kind, nodes, edges] and stepFilesJson = [kind, entries], an entry being
\* [key, isString, content]; assets is None or Some(entries) with entries
\* [path, value].  filesByPath is a function from paths to contents.

StartsWith(s, prefix) == Len(s) >= Len(prefix) /\ SubSeq(s, 1, Len(prefix)) = prefix

RECURSIVE StripSlashes(_)
StripSlashes(s) == IF s # <<>> /\ Head(s) = "/" THEN StripSlashes(Tail(s)) ELSE s

\* input.trim().replace(/\\/g, "/").replace(/^\.\/+/, "")
normalizeZipPath(input) ==
  LET trimmed == trim(input)
      slashed == [i \in 1..Len(trimmed) |-> IF trimmed[i] = "\\" THEN "/" ELSE trimmed[i]]
  IN IF StartsWith(slashed, <<".", "/">>) THEN StripSlashes(Tail(slashed)) ELSE slashed

RECURSIVE SplitSlash(_, _)
\* path.split("/"), cur being the part under construction
SplitSlash(path, cur) ==
  IF path = <<>> THEN <<cur>>
  ELSE IF Head(path) = "/" THEN <<cur>> \o SplitSlash(Tail(path), <<>>)
  ELSE SplitSlash(Tail(path), Append(cur, Head(path)))

\* variant: a .. segment is let through
isSafeZipPath_DotDotAllowed(path) ==
  /\ path # <<>>
  /\ Head(path) # "/"
  /\ "NUL" \notin Range(path)
  /\ \A part \in Range(SplitSlash(path, <<>>)) : part # <<".">> /\ part # <<>>

\* the NUL character is the one-element string "NUL"
isSafeZipPath(path) ==
  /\ path # <<>>
  /\ Head(path) # "/"
  /\ "NUL" \notin Range(path)
  /\ \A part \in Range(SplitSlash(path, <<>>)) :
        part # <<".", ".">> /\ part # <<".">> /\ part # <<>>

Put(files, path, content) ==
  [k \in DOMAIN files \cup {path} |-> IF k = path THEN content ELSE files[k]]

NoFiles == [k \in {} |-> <<>>]

\* the error parseJsonObject pushes for a text, if any
ParseJsonObjectErrors(json, label, n) ==
  IF json.kind = "blank" THEN <<Msg("json-empty", label, n)>>
  ELSE IF json.kind = "nonobject" THEN <<Msg("json-not-object", label, n)>>
  ELSE IF json.kind = "invalid" THEN <<Msg("json-unparsable", label, n)>>
  ELSE <<>>

S_label_steps == <<"s", "t", "e", "p", "F", "i", "l", "e", "s", "J", "s", "o", "n">>
S_label_graph == <<"g", "r", "a", "p", "h", "J", "s", "o", "n">>

\* parseStepFilesJson: errors pushed, and the entries kept (None for null)
parseStepFilesJson(json, n) ==
  LET IsString(e) == e.isString
      NotString(e) == ~e.isString
      bad == IF json.kind = "object" THEN SelectSeq(json.entries, NotString) ELSE <<>>
  IN [errors |-> ParseJsonObjectErrors(json, S_label_steps, n)
                 \o [i \in 1..Len(bad) |-> Msg("step-content-not-string", bad[i].key, n)],
      value |-> IF json.kind = "object" THEN Some(SelectSeq(json.entries, IsString)) ELSE None]

parseBuilderGraphJson(json, n) ==
  IF json.kind # "object"
    THEN [errors |-> ParseJsonObjectErrors(json, S_label_graph, n), value |-> None]
  ELSE IF json.nodes = <<>>
    THEN [errors |-> <<Msg("graph-nodes-empty", <<>>, n)>>, value |-> None]
  ELSE [errors |-> <<>>, value |-> Some([nodes |-> json.nodes, edges |-> json.edges])]

extractEntryPaths(bmad) ==
  LET workflow == trim(bmad.entry.workflow)
      graph == trim(bmad.entry.graph)
      agents == trim(bmad.entry.agents)
  IN IF ~bmad.entry.present
       THEN [errors |-> <<Msg("entry-missing", <<>>, 0)>>, value |-> None]
     ELSE IF workflow = <<>> \/ graph = <<>> \/ agents = <<>>
       THEN [errors |-> <<Msg("entry-paths-missing", <<>>, 0)>>, value |-> None]
     ELSE [errors |-> <<>>, value |-> Some(<<workflow, graph, agents>>)]

\* the set of ids collected from agents.json
AgentIds(agentsJson) ==
  {agentsJson.items[i].id :
     i \in {j \in 1..Len(agentsJson.items) :
              agentsJson.items[j].isObject /\ trim(agentsJson.items[j].id) # <<>>}}

RECURSIVE AddAssets_KeepOutside(_, _)
\* variant: a path outside assets/ is warned about and kept
AddAssets_KeepOutside(acc, entries) ==
  IF entries = <<>> THEN acc
  ELSE LET normalized == normalizeZipPath(Head(entries).path)
       IN AddAssets_KeepOutside(
            IF ~StartsWith(normalized, S_assets)
              THEN [acc EXCEPT !.warnings = Append(@, Msg("asset-skipped", normalized, 0)),
                               !.files = Put(@, normalized, Head(entries).value)]
            ELSE IF ~isSafeZipPath(normalized)
              THEN [acc EXCEPT !.errors = Append(@, Msg("asset-path-unsafe", normalized, 0))]
            ELSE [acc EXCEPT !.files = Put(@, normalized, Head(entries).value)],
            Tail(entries))

RECURSIVE AddAssets_SkipIsError(_, _)
\* variant: a path outside assets/ is reported as an error
AddAssets_SkipIsError(acc, entries) ==
  IF entries = <<>> THEN acc
  ELSE LET normalized == normalizeZipPath(Head(entries).path)
       IN AddAssets_SkipIsError(
            IF ~StartsWith(normalized, S_assets)
              THEN [acc EXCEPT !.errors = Append(@, Msg("asset-skipped", normalized, 0))]
            ELSE IF ~isSafeZipPath(normalized)
              THEN [acc EXCEPT !.errors = Append(@, Msg("asset-path-unsafe", normalized, 0))]
            ELSE [acc EXCEPT !.files = Put(@, normalized, Head(entries).value)],
            Tail(entries))

RECURSIVE AddAssets(_, _)
\* the loop over Object.entries(assets)
AddAssets(acc, entries) ==
  IF entries = <<>> THEN acc
  ELSE LET normalized == normalizeZipPath(Head(entries).path)
       IN AddAssets(
            IF ~StartsWith(normalized, S_assets)
              THEN [acc EXCEPT !.warnings = Append(@, Msg("asset-skipped", normalized, 0))]
            ELSE IF ~isSafeZipPath(normalized)
              THEN [acc EXCEPT !.errors = Append(@, Msg("asset-path-unsafe", normalized, 0))]
            ELSE [acc EXCEPT !.files = Put(@, normalized, Head(entries).value)],
            Tail(entries))

RECURSIVE NormalizeStepFiles(_, _, _)
\* the loop filling stepFilesNormalized (a function key -> content)
NormalizeStepFiles(acc, entries, n) ==
  IF entries = <<>> THEN acc
  ELSE LET key == normalizeZipPath(Head(entries).key)
       IN NormalizeStepFiles(
            IF ~StartsWith(key, S_steps)
              THEN [acc EXCEPT !.errors = Append(@, Msg("step-key-prefix", key, n))]
            ELSE IF ~isSafeZipPath(key)
              THEN [acc EXCEPT !.errors = Append(@, Msg("step-key-unsafe", key, n))]
            ELSE IF trim(Head(entries).content) = <<>>
              THEN [acc EXCEPT !.errors = Append(@, Msg("step-content-empty", key, n))]
            ELSE [acc EXCEPT !.files = Put(@, key, Head(entries).content)],
            Tail(entries), n)

\* variant: the agent of a node is not looked up
NodeErrors_NoAgentCheck(node, stepFilesNormalized, stepFullPaths, agentIds, workflowId, n) ==
  LET file == normalizeZipPath(node.file)
      full == S_workflows \o workflowId \o <<"/">> \o file
  IN IF ~StartsWith(file, S_steps) THEN <<Msg("node-file-prefix", <<node.id, file>>, n)>>
     ELSE IF ~isSafeZipPath(file) THEN <<Msg("node-file-unsafe", <<node.id, file>>, n)>>
     ELSE IF file \notin DOMAIN stepFilesNormalized
       THEN <<Msg("step-file-missing", <<file, node.id>>, n)>>
     ELSE IF full \notin stepFullPaths THEN <<Msg("step-file-not-in-zip", <<full>>, n)>>
     ELSE <<>>

\* the errors one compiled node adds while it is rewritten
NodeErrors(node, stepFilesNormalized, stepFullPaths, agentIds, workflowId, n) ==
  LET file == normalizeZipPath(node.file)
      full == S_workflows \o workflowId \o <<"/">> \o file
      agentId == trim(node.agentId)
  IN (IF ~StartsWith(file, S_steps) THEN <<Msg("node-file-prefix", <<node.id, file>>, n)>>
      ELSE IF ~isSafeZipPath(file) THEN <<Msg("node-file-unsafe", <<node.id, file>>, n)>>
      ELSE IF file \notin DOMAIN stepFilesNormalized
        THEN <<Msg("step-file-missing", <<file, node.id>>, n)>>
      ELSE IF full \notin stepFullPaths THEN <<Msg("step-file-not-in-zip", <<full>>, n)>>
      ELSE <<>>)
     \o (IF agentId # <<>> /\ agentId \notin agentIds
           THEN <<Msg("unknown-agent", <<agentId, node.id>>, n)>> ELSE <<>>)

RECURSIVE AllNodeErrors(_, _, _, _, _, _)
AllNodeErrors(nodes, stepFilesNormalized, stepFullPaths, agentIds, workflowId, n) ==
  IF nodes = <<>> THEN <<>>
  ELSE NodeErrors(Head(nodes), stepFilesNormalized, stepFullPaths, agentIds, workflowId, n)
       \o AllNodeErrors(Tail(nodes), stepFilesNormalized, stepFullPaths, agentIds, workflowId, n)

\* a compiled graph is checked node by node and written as graph.json
WriteGraph(acc, graph, warnings, stepFilesNormalized, stepFullPaths, agentIds, workflowId, base, n) ==
  [acc EXCEPT
     !.warnings = @ \o [i \in 1..Len(warnings) |-> Msg("compile-warning", warnings[i], n)],
     !.errors = @ \o AllNodeErrors(graph.nodes, stepFilesNormalized, stepFullPaths,
                                   agentIds, workflowId, n),
     !.files = Put(@, base \o S_graph_json,
                   [graph |-> [graph EXCEPT
                      !.nodes = [i \in 1..Len(graph.nodes) |->
                                   [graph.nodes[i] EXCEPT
                                      !.file = base \o <<"/">> \o normalizeZipPath(graph.nodes[i].file)]]]])]

\* variant: the warnings of a graph that compiled are not passed on
CompileWorkflow_WarningsLost(acc, graphBuild, stepFilesNormalized, stepFullPaths, agentIds, workflowId, base, n) ==
  IF graphBuild.graph = None
    THEN [acc EXCEPT !.errors = Append(@, Msg("compile-failed", graphBuild.errors, n))]
  ELSE WriteGraph(acc, graphBuild.graph[1], <<>>, stepFilesNormalized,
                  stepFullPaths, agentIds, workflowId, base, n)

\* the graph is compiled; a failure is one error and the workflow is left
CompileWorkflow(acc, graphBuild, stepFilesNormalized, stepFullPaths, agentIds, workflowId, base, n) ==
  IF graphBuild.graph = None
    THEN [acc EXCEPT !.errors = Append(@, Msg("compile-failed", graphBuild.errors, n))]
  ELSE WriteGraph(acc, graphBuild.graph[1], graphBuild.warnings, stepFilesNormalized,
                  stepFullPaths, agentIds, workflowId, base, n)

\* the normalised step files are written under the workflow directory
WriteStepFiles(acc, norm, stepFullPaths, base) ==
  [acc EXCEPT
     !.errors = @ \o norm.errors,
     !.files = [k \in DOMAIN @ \cup stepFullPaths |->
                  IF k \in stepFullPaths
                    THEN norm.files[CHOOSE key \in DOMAIN norm.files : base \o <<"/">> \o key = k]
                    ELSE @[k]]]

StepFullPaths(norm, base) == {base \o <<"/">> \o key : key \in DOMAIN norm.files}

\* both payloads parsed: step files, then compile and node checks
ProcessParsed(acc, norm, graphPayload, agentIds, workflowId, base, n) ==
  CompileWorkflow(WriteStepFiles(acc, norm, StepFullPaths(norm, base), base),
                  buildWorkflowGraphV11(graphPayload.nodes, graphPayload.edges),
                  norm.files, StepFullPaths(norm, base), agentIds, workflowId, base, n)

\* workflow.md is written and the two JSON texts are parsed
ParseWorkflow(acc, wf, stepFiles, graphPayload, agentIds, workflowId, base) ==
  IF stepFiles.value = None \/ graphPayload.value = None
    THEN [acc EXCEPT !.files = Put(@, base \o S_workflow_md, wf.workflowMd),
                     !.errors = @ \o stepFiles.errors \o graphPayload.errors]
  ELSE ProcessParsed(
         [acc EXCEPT !.files = Put(@, base \o S_workflow_md, wf.workflowMd),
                     !.errors = @ \o stepFiles.errors \o graphPayload.errors],
         NormalizeStepFiles([files |-> NoFiles, errors |-> <<>>], stepFiles.value[1], wf.id),
         graphPayload.value[1], agentIds, workflowId, base, wf.id)

\* the checks that open an iteration: the id and workflow.md
CheckWorkflow(acc, wf, agentIds, workflowId) ==
  IF workflowId = <<>> \/ ~WORKFLOW_ID_PATTERN(workflowId)
    THEN [acc EXCEPT !.errors = Append(@, Msg("workflow-id-invalid", workflowId, wf.id))]
  ELSE IF trim(wf.workflowMd) = <<>>
    THEN [acc EXCEPT !.errors = Append(@, Msg("workflow-md-missing", <<>>, wf.id))]
  ELSE ParseWorkflow(acc, wf, parseStepFilesJson(wf.stepFilesJson, wf.id),
                     parseBuilderGraphJson(wf.graphJson, wf.id),
                     agentIds, workflowId, S_workflows \o workflowId)

\* one iteration of the loop over the workflows
ProcessWorkflow(acc, wf, agentIds) ==
  CheckWorkflow(acc, wf, agentIds, trim(NumberToString(wf.id)))

RECURSIVE ProcessWorkflows_StopAtFirstError(_, _, _)
\* variant: the loop is left at the first workflow that adds an error
ProcessWorkflows_StopAtFirstError(acc, workflows, agentIds) ==
  IF workflows = <<>> \/ acc.errors # <<>> THEN acc
  ELSE ProcessWorkflows_StopAtFirstError(ProcessWorkflow(acc, Head(workflows), agentIds),
                                         Tail(workflows), agentIds)

RECURSIVE ProcessWorkflows(_, _, _)
ProcessWorkflows(acc, workflows, agentIds) ==
  IF workflows = <<>> THEN acc
  ELSE ProcessWorkflows(ProcessWorkflow(acc, Head(workflows), agentIds), Tail(workflows), agentIds)

\* variant: only entry.workflow is looked up in the file set
EntryErrors_WorkflowOnly(entryPaths, files) ==
  IF normalizeZipPath(entryPaths[1]) \notin DOMAIN files
    THEN <<Msg("entry-file-missing", normalizeZipPath(entryPaths[1]), 0)>> ELSE <<>>

\* the errors of the final check of the entry paths against the file set
EntryErrors(entryPaths, files) ==
  LET expected == [i \in 1..3 |-> normalizeZipPath(entryPaths[i])]
      Missing(path) == path \notin DOMAIN files
      missing == SelectSeq(expected, Missing)
  IN [i \in 1..Len(missing) |-> Msg("entry-file-missing", missing[i], 0)]

\* the result once the loop over the workflows is over
FinishExport(done, entryErrors) ==
  IF done.errors # <<>>
    THEN [filesByPath |-> None, errors |-> done.errors, warnings |-> done.warnings]
  ELSE IF entryErrors # <<>>
    THEN [filesByPath |-> None, errors |-> entryErrors, warnings |-> done.warnings]
  ELSE [filesByPath |-> Some(done.files), errors |-> <<>>, warnings |-> done.warnings]

\* the manifests are written, then the assets, then the workflows
ExportFiles(entryPaths, done) == FinishExport(done, EntryErrors(entryPaths, done.files))

StartFiles(bmadJson, agentsJson) ==
  [files |-> Put(Put(NoFiles, S_bmad_json, bmadJson), S_agents_json, agentsJson),
   errors |-> <<>>, warnings |-> <<>>]

WithAssets(start, assets) == IF assets = None THEN start ELSE AddAssets(start, assets[1])

ParseManifests(bmadJson, agentsJson) ==
  ParseJsonObjectErrors(bmadJson, S_bmad_json, 0)
  \o ParseJsonObjectErrors(agentsJson, S_agents_json, 0)

CheckedExport(parseErrors, entryPaths, bmadJson, agentsJson, workflows, assets) ==
  IF parseErrors # <<>>
    THEN [filesByPath |-> None, errors |-> parseErrors, warnings |-> <<>>]
  ELSE IF entryPaths.value = None
    THEN [filesByPath |-> None, errors |-> entryPaths.errors, warnings |-> <<>>]
  ELSE IF workflows = <<>>
    THEN [filesByPath |-> None, errors |-> <<Msg("no-workflows", <<>>, 0)>>, warnings |-> <<>>]
  ELSE ExportFiles(entryPaths.value[1],
                   ProcessWorkflows(WithAssets(StartFiles(bmadJson, agentsJson), assets),
                                    workflows, AgentIds(agentsJson)))

buildBmadExportFilesV11(bmadJson, agentsJson, workflows, assets) ==
  CheckedExport(ParseManifests(bmadJson, agentsJson), extractEntryPaths(bmadJson),
                bmadJson, agentsJson, workflows, assets)

\* ---------------------------------------------------------- frontmatter codec
\* extractYamlFrontmatter, parseYamlToObject and parseMarkdownFrontmatter.
\* The three regular expressions only tell the lines of a markdown text
\* apart by their kind, so a text is the sequence of the kinds of its lines:
\*   "fence"           --- at the start of the line, then whitespace only
\*   "indented-fence"  whitespace, ---, then whitespace only
\*   "blank"           whitespace only
\*   "text"            anything else
\* What the YAML library makes of the extracted text is an input: "object",
\* "empty" (a falsy document), "notobject" or "throws".

AllBlank(lines) == \A i \in 1..Len(lines) : lines[i] = "blank"

\* the first line that is not blank
FirstInk(lines) == CHOOSE i \in 1..Len(lines) : lines[i] # "blank" /\ \A j \in 1..(i - 1) : lines[j] = "blank"

\* FRONTMATTER_LEADING_WS_REGEX: whitespace, then a fence line
LeadingWsFence(lines) ==
  /\ ~AllBlank(lines)
  /\ \/ lines[FirstInk(lines)] = "indented-fence"
     \/ lines[FirstInk(lines)] = "fence" /\ FirstInk(lines) > 1

\* FRONTMATTER_REGEX: a fence on the first line and the nearest later fence
\* that a line break separates from the end of the first line; 0 when the
\* expression does not match
ClosingFence(lines) ==
  IF lines # <<>> /\ lines[1] = "fence" /\ \E j \in 3..Len(lines) : lines[j] = "fence"
    THEN CHOOSE j \in 3..Len(lines) :
           lines[j] = "fence" /\ \A k \in 3..(j - 1) : lines[k] # "fence"
  ELSE 0

extractYamlFrontmatter(lines) ==
  IF AllBlank(lines) THEN [yaml |-> None, error |-> None]
  ELSE IF LeadingWsFence(lines) THEN [yaml |-> None, error |-> Some("leading-whitespace")]
  ELSE IF ClosingFence(lines) = 0
    THEN IF lines[1] = "fence" THEN [yaml |-> None, error |-> Some("unclosed")]
         ELSE [yaml |-> None, error |-> None]
  ELSE [yaml |-> Some(SubSeq(lines, 2, ClosingFence(lines) - 1)), error |-> None]

\* data is TRUE when an object comes back
parseYamlToObject(yamlText, yaml) ==
  IF AllBlank(yamlText) THEN [data |-> TRUE, error |-> None]
  ELSE IF yaml = "throws" THEN [data |-> FALSE, error |-> Some("yaml-parse-failed")]
  ELSE IF yaml = "empty" THEN [data |-> TRUE, error |-> None]
  ELSE IF yaml = "notobject" THEN [data |-> FALSE, error |-> Some("yaml-not-object")]
  ELSE [data |-> TRUE, error |-> None]

parseMarkdownFrontmatter(lines, yaml) ==
  LET extract == extractYamlFrontmatter(lines)
  IN IF extract.error # None THEN [data |-> FALSE, error |-> extract.error]
     ELSE IF extract.yaml = None THEN [data |-> FALSE, error |-> Some("missing-frontmatter")]
     ELSE parseYamlToObject(extract.yaml[1], yaml)

\* ---------------------------------------------------------- bundle validator
\* validateExportBundleV11 reads a file set through typeof, JSON.parse, the
\* compiled schemas and parseMarkdownFrontmatter.  What these make of the
\* content of a file is an input of the model: read[path] is
\* [isString, blank, json, lines, yaml, ajvErrors, workflows, entryWorkflow]
\* with json "invalid", "nonobject" or "object", lines the lines of the text
\* as the frontmatter codec tells them apart, yaml what the YAML library
\* makes of the frontmatter, ajvErrors the errors the schema
\* of the document leaves behind, and, for bmad.json, the ids listed under
\* workflows (an entry without string id reads as the empty id) and the text
\* of entry.workflow.  An issue is [severity, filePath, kind, message].

S_dot_md == <<".", "m", "d">>
S_steps_dir == <<"s", "t", "e", "p", "s">>

EndsWith(s, suffix) ==
  Len(s) >= Len(suffix) /\ SubSeq(s, Len(s) - Len(suffix) + 1, Len(s)) = suffix

Issue(filePath, kind, message) ==
  [severity |-> "error", filePath |-> filePath, kind |-> kind, message |-> message]

\* files[path] is a string
IsText(files, read, path) == path \in DOMAIN files /\ read[path].isString

\* one issue per error Ajv reports
pushAjvErrors(filePath, kind, errors) ==
  [i \in 1..Len(errors) |-> Issue(filePath, kind, errors[i])]

\* variant: a root that is no object is let through
parseJsonObject_AnyRoot(files, read, filePath) ==
  IF ~IsText(files, read, filePath)
    THEN <<Issue(filePath, "schema", Msg("missing-or-not-text", <<>>, 0))>>
  ELSE IF read[filePath].blank THEN <<Issue(filePath, "schema", Msg("file-empty", <<>>, 0))>>
  ELSE IF read[filePath].json = "invalid"
    THEN <<Issue(filePath, "schema", Msg("json-unparsable", <<>>, 0))>>
  ELSE <<>>

\* the issue parseJsonObject pushes when it returns null, none when it
\* returns the object
parseJsonObject(files, read, filePath) ==
  IF ~IsText(files, read, filePath)
    THEN <<Issue(filePath, "schema", Msg("missing-or-not-text", <<>>, 0))>>
  ELSE IF read[filePath].blank THEN <<Issue(filePath, "schema", Msg("file-empty", <<>>, 0))>>
  ELSE IF read[filePath].json = "nonobject"
    THEN <<Issue(filePath, "schema", Msg("json-root-not-object", <<>>, 0))>>
  ELSE IF read[filePath].json = "invalid"
    THEN <<Issue(filePath, "schema", Msg("json-unparsable", <<>>, 0))>>
  ELSE <<>>

\* a JSON document is parsed and, when that gives an object, validated
JsonIssues(files, read, filePath) ==
  LET parseIssues == parseJsonObject(files, read, filePath)
  IN IF parseIssues # <<>> THEN parseIssues
     ELSE pushAjvErrors(filePath, "schema", read[filePath].ajvErrors)

\* the issue ensureText pushes when it returns null
ensureText(files, read, filePath) ==
  IF ~IsText(files, read, filePath)
    THEN <<Issue(filePath, "frontmatter", Msg("missing-or-not-text", <<>>, 0))>>
  ELSE IF read[filePath].blank
    THEN <<Issue(filePath, "frontmatter", Msg("file-empty", <<>>, 0))>>
  ELSE <<>>

\* a markdown file: text, then its frontmatter, then the frontmatter schema
MarkdownIssues(files, read, filePath) ==
  LET textIssues == ensureText(files, read, filePath)
      parsed == parseMarkdownFrontmatter(read[filePath].lines, read[filePath].yaml)
  IN IF textIssues # <<>> THEN textIssues
     ELSE IF parsed.error # None
       THEN <<Issue(filePath, "frontmatter", Msg(parsed.error[1], <<>>, 0))>>
     ELSE IF ~parsed.data
       THEN <<Issue(filePath, "frontmatter", Msg("frontmatter-failed", <<>>, 0))>>
     ELSE pushAjvErrors(filePath, "frontmatter", read[filePath].ajvErrors)

NonEmpty(s) == s # <<>>

\* /^workflows\/([^/]+)\/workflow\.md$/ on the trimmed entry.workflow
EntryWorkflowId(workflow) ==
  LET parts == SplitSlash(trim(workflow), <<>>)
  IN IF /\ Len(parts) = 3
        /\ parts[1] \o <<"/">> = S_workflows
        /\ parts[2] # <<>>
        /\ <<"/">> \o parts[3] = S_workflow_md
       THEN <<parts[2]>>
     ELSE <<>>

collectWorkflowIdsFromBmad(bmad) ==
  LET ids == SelectSeq([i \in 1..Len(bmad.workflows) |-> trim(bmad.workflows[i])], NonEmpty)
  IN IF ids # <<>> THEN DistinctSeq(ids, {}) ELSE EntryWorkflowId(bmad.entryWorkflow)

\* the paths the validator files under a workflow id: workflows/<id>/steps/...md
IsStepPathOf(path, workflowId) ==
  LET parts == SplitSlash(path, <<>>)
  IN /\ StartsWith(path, S_workflows)
     /\ EndsWith(path, S_dot_md)
     /\ Len(parts) >= 4
     /\ parts[1] \o <<"/">> = S_workflows
     /\ parts[3] = S_steps_dir
     /\ trim(parts[2]) # <<>>
     /\ trim(parts[2]) = workflowId

RECURSIVE SetToSeq(_)
SetToSeq(S) ==
  IF S = {} THEN <<>>
  ELSE LET x == CHOOSE y \in S : TRUE IN <<x>> \o SetToSeq(S \ {x})

\* the bucket of a workflow id; the file set is a function, its paths are
\* taken in sorted order where the code takes them in insertion order
StepEntries(files, workflowId) ==
  SortIds(SetToSeq({path \in DOMAIN files : IsStepPathOf(path, workflowId)}))

RECURSIVE StepIssues(_, _, _)
StepIssues(files, read, paths) ==
  IF paths = <<>> THEN <<>>
  ELSE MarkdownIssues(files, read, Head(paths)) \o StepIssues(files, read, Tail(paths))

\* the body of workflowIds.forEach for one id
WorkflowIssues(files, read, workflowId) ==
  JsonIssues(files, read, S_workflows \o workflowId \o S_graph_json)
  \o MarkdownIssues(files, read, S_workflows \o workflowId \o S_workflow_md)
  \o StepIssues(files, read, StepEntries(files, workflowId))

RECURSIVE AllWorkflowIssues(_, _, _)
AllWorkflowIssues(files, read, workflowIds) ==
  IF workflowIds = <<>> THEN <<>>
  ELSE WorkflowIssues(files, read, Head(workflowIds))
       \o AllWorkflowIssues(files, read, Tail(workflowIds))

\* the ids are collected only when bmad.json gave an object
WorkflowIdsOf(files, read) ==
  IF parseJsonObject(files, read, S_bmad_json) = <<>>
    THEN collectWorkflowIdsFromBmad(read[S_bmad_json])
  ELSE <<>>

BundleIssues(files, read) ==
  JsonIssues(files, read, S_bmad_json)
  \o JsonIssues(files, read, S_agents_json)
  \o AllWorkflowIssues(files, read, WorkflowIdsOf(files, read))

\* issues.every((issue) => issue.severity !== "error")
Verdict(issues) ==
  [ok |-> \A i \in 1..Len(issues) : issues[i].severity # "error", issues |-> issues]

validateExportBundleV11(files, read) == Verdict(BundleIssues(files, read))

\* ------------------------------------------------------------- export paths
\* exportPackageV11, the export handler of the project page, and
\* buildBmadZipBundleV11.  Both await the archive writer; the handler also
\* awaits the fetch of the workflow details.  The component state and the
\* locals of the handler are the fields of one record: errors, warnings,
\* issues, exporting, filesByPath, validation (what the validator was given
\* and what it returned), zipBytes, downloaded.

\* zip.file(path, value) for every entry: the archive holds the file set
buildZipBytesFromFiles(filesByPath) == filesByPath

\* how the files the assembler wrote read to the validator: the manifests
\* and the graph are JSON objects, the markdown files are text; verdict
\* holds what the schemas say, the lines of the markdown files and the ids
\* bmad.json lists under workflows
AssembledRead(files, verdict) ==
  [path \in DOMAIN files |->
     IF path = S_bmad_json
       THEN [isString |-> TRUE, blank |-> FALSE, json |-> "object",
             lines |-> <<>>, yaml |-> "object",
             ajvErrors |-> verdict.bmad, workflows |-> verdict.workflows,
             entryWorkflow |-> files[path].entry.workflow]
     ELSE [isString |-> TRUE, blank |-> FALSE, json |-> "object",
           lines |-> verdict.lines, yaml |-> "object",
           ajvErrors |-> IF path = S_agents_json THEN verdict.agents
                         ELSE IF EndsWith(path, S_graph_json) THEN verdict.graph
                         ELSE verdict.markdown,
           workflows |-> <<>>, entryWorkflow |-> <<>>]]

ExportIdle ==
  [errors |-> <<>>, warnings |-> <<>>, issues |-> <<>>, exporting |-> FALSE,
   filesByPath |-> None, validation |-> None, zipBytes |-> None, downloaded |-> FALSE]

\* the early returns of the handler: the state they leave, None when the
\* export goes on
ExportPrecheck(precheck) ==
  IF precheck = "apiEnvError" THEN Some([ExportIdle EXCEPT !.errors = <<Msg("api-env", <<>>, 0)>>])
  ELSE IF precheck \in {"noProject", "noData"} THEN Some(ExportIdle)
  ELSE IF precheck = "exporting" THEN Some([ExportIdle EXCEPT !.exporting = TRUE])
  ELSE IF precheck = "noBmad" THEN Some([ExportIdle EXCEPT !.errors = <<Msg("no-bmad-json", <<>>, 0)>>])
  ELSE IF precheck = "noAgents"
    THEN Some([ExportIdle EXCEPT !.errors = <<Msg("no-agents-json", <<>>, 0)>>])
  ELSE IF precheck = "assetsError"
    THEN Some([ExportIdle EXCEPT !.errors = <<Msg("assets-load-failed", <<>>, 0)>>])
  ELSE IF precheck = "assetsParseError"
    THEN Some([ExportIdle EXCEPT !.errors = <<Msg("assets-parse-failed", <<>>, 0)>>])
  ELSE None

\* variant: the archive is written whatever the validator returned
ExportValidated_IgnoreVerdict(state, files, validation) ==
  [pc |-> "zipping",
   state |-> [state EXCEPT !.validation = Some([ok |-> validation.ok,
                                                issues |-> validation.issues,
                                                filesByPath |-> files])]]

\* the validator has returned: its issues are shown, or the archive is awaited
ExportValidated(state, files, validation) ==
  IF ~validation.ok
    THEN [pc |-> "done",
          state |-> [state EXCEPT !.issues = validation.issues, !.exporting = FALSE,
                                  !.validation = Some([ok |-> validation.ok,
                                                       issues |-> validation.issues,
                                                       filesByPath |-> files])]]
  ELSE [pc |-> "zipping",
        state |-> [state EXCEPT !.validation = Some([ok |-> validation.ok,
                                                     issues |-> validation.issues,
                                                     filesByPath |-> files])]]

\* the assembler has returned
ExportAssembled(state, exportFiles, verdict) ==
  IF exportFiles.filesByPath = None
    THEN [pc |-> "done",
          state |-> [state EXCEPT
                       !.errors = IF exportFiles.errors # <<>> THEN exportFiles.errors
                                  ELSE <<Msg("export-failed", <<>>, 0)>>,
                       !.warnings = exportFiles.warnings, !.exporting = FALSE]]
  ELSE ExportValidated([state EXCEPT !.warnings = exportFiles.warnings,
                                     !.filesByPath = exportFiles.filesByPath],
                       exportFiles.filesByPath[1],
                       validateExportBundleV11(exportFiles.filesByPath[1],
                                               AssembledRead(exportFiles.filesByPath[1], verdict)))

\* the fetches of the workflow details have settled
ExportFetchedTo(state, c) ==
  IF c.fetch = "throws"
    THEN [pc |-> "done",
          state |-> [state EXCEPT !.errors = <<Msg("export-failed", <<>>, 0)>>,
                                  !.exporting = FALSE]]
  ELSE IF c.fetch = "failed"
    THEN [pc |-> "done",
          state |-> [state EXCEPT !.errors = <<Msg("workflow-load-failed", <<>>, 0)>>,
                                  !.exporting = FALSE]]
  ELSE ExportAssembled(state,
                       buildBmadExportFilesV11(c.bmadJson, c.agentsJson, c.workflows, c.assets),
                       c.verdict)

\* the archive writer has settled
ExportZippedTo(state, zipFails) ==
  IF zipFails
    THEN [state EXCEPT !.errors = <<Msg("export-failed", <<>>, 0)>>, !.exporting = FALSE]
  ELSE [state EXCEPT !.zipBytes = Some(buildZipBytesFromFiles(state.filesByPath[1])),
                     !.downloaded = TRUE, !.exporting = FALSE]

\* buildBmadZipBundleV11 up to its await
ZipBuilt(build) ==
  [filesByPath |-> build.filesByPath, zipBytes |-> None, errors |-> build.errors,
   warnings |-> build.warnings]

\* buildBmadZipBundleV11 after its await
ZipGeneratedTo(state, zipFails) ==
  IF zipFails
    THEN [state EXCEPT !.errors = <<Msg("zip-failed", <<>>, 0)>>]
  ELSE [state EXCEPT !.zipBytes = Some(buildZipBytesFromFiles(state.filesByPath[1]))]

\* ------------------------------------------------------------------ inputs
SeqsUpTo(S, n) == UNION {[1..k -> S] : k \in 0..n}

S_a == <<"a">>
S_b == <<"b">>
S_c == <<"c">>
S_dev == <<"d", "e", "v">>
S_e1 == <<"e", "1">>
S_e2 == <<"e", "2">>
S_x == <<"x">>

Node(id, agentId) == [id |-> id, agentId |-> agentId]
Edge(id, source, target, label, isDefault) ==
  [id |-> id, source |-> source, target |-> target, label |-> label, isDefault |-> isDefault]

\* nodes the editor can hand over: valid ids, a second node named a with
\* other data, a node without id and a node whose id breaks the pattern
NodePool ==
  {Node(S_a, <<>>), Node(S_b, <<>>), Node(S_c, <<>>), Node(S_a, S_dev),
   Node(<<>>, <<>>), Node(<<"?">>, <<>>)}

\* edges without id, label or default flag, over every pair of endpoints,
\* and edges that lack an endpoint
PlainEdges ==
  {Edge(<<>>, s, t, <<>>, FALSE) : s \in {S_a, S_b, S_c}, t \in {S_a, S_b, S_c}}
  \cup {Edge(<<>>, <<>>, S_a, <<>>, FALSE), Edge(<<>>, S_a, <<>>, <<>>, FALSE)}

\* edges leaving a, with and without id, label and default flag
BranchEdges ==
  {Edge(id, S_a, t, label, d) :
     id \in {<<>>, S_e1, S_e2}, t \in {S_b, S_c},
     label \in {<<>>, <<" ">>, S_x}, d \in BOOLEAN}

\* the few edges combined with every node list: a chain, a two-cycle, an
\* edge without source
FewEdges ==
  {Edge(<<>>, S_a, S_b, <<>>, FALSE), Edge(<<>>, S_b, S_a, <<>>, FALSE),
   Edge(<<>>, S_b, S_c, <<>>, FALSE), Edge(<<>>, <<>>, S_a, <<>>, FALSE)}

\* a graph with several faults at once: an id that breaks the pattern, a
\* two-cycle, an edge without source and an edge to a node that is not there
FaultyNodes == <<Node(S_a, <<>>), Node(S_b, <<>>), Node(<<"?">>, <<>>)>>
FaultyEdges ==
  {Edge(<<>>, S_a, S_b, <<>>, FALSE), Edge(<<>>, S_b, S_a, <<>>, FALSE),
   Edge(<<>>, <<>>, S_a, <<>>, FALSE), Edge(<<>>, S_b, S_c, <<>>, FALSE)}

\* the node lists combined with every edge list
ThreeNodes == <<Node(S_a, <<>>), Node(S_b, <<>>), Node(S_c, <<>>)>>
NodeLists == {ThreeNodes, <<Node(S_c, <<>>), Node(S_a, S_dev), Node(S_b, <<>>)>>}

\* call is a call of compile
CompileInputs ==
  \/ \E ns \in SeqsUpTo(NodePool, MaxNodes), es \in SeqsUpTo(FewEdges, MaxEdges) :
        call = [fn |-> "compile", nodes |-> ns, edges |-> es]
  \/ \E ns \in NodeLists, es \in SeqsUpTo(PlainEdges, MaxEdges) :
        call = [fn |-> "compile", nodes |-> ns, edges |-> es]
  \/ \E es \in SeqsUpTo(BranchEdges, MaxEdges) :
        call = [fn |-> "compile", nodes |-> ThreeNodes, edges |-> es]
  \/ \E es \in [1..3 -> FaultyEdges] :
        call = [fn |-> "compile", nodes |-> FaultyNodes, edges |-> es]

S_p == <<"p">>
S_t == <<"t">>
S_ok == <<"o", "k">>
S_qa == <<"q", "a">>
S_ghost == <<"g", "h", "o", "s", "t">>

Listed(id, isDefault) == [present |-> TRUE, id |-> id, isDefault |-> isDefault]
ListedPool ==
  {Listed(id, d) : id \in {1, 2, -1}, d \in BOOLEAN}
  \cup {[present |-> FALSE, id |-> 0, isDefault |-> FALSE]}

\* call is a call of the package manifest builder
ManifestInputs ==
  \E n \in {<<>>, S_p}, ws \in SeqsUpTo(ListedPool, MaxListed),
     c \in {<<>>, S_t}, v \in {VersionAbsent, <<" ">>, <<"2">>} :
    call = [fn |-> "manifest", projectName |-> n, workflows |-> ws, createdAt |-> c, version |-> v]

Item(isObject, name, id) == [isObject |-> isObject, name |-> name, id |-> id]
LegacyItems ==
  {Item(TRUE, name, <<>>) :
     name \in {S_dev, <<"D", "e", "v">>, <<>>, <<"?">>, <<".", "x">>, <<"q", " ", "a">>}}
  \cup {Item(FALSE, <<>>, <<>>)}
V11Items ==
  {Item(TRUE, <<>>, id) :
     id \in {S_dev, S_qa, <<" ", "d", "e", "v">>, <<>>, <<"q", " ", "a">>}}
  \cup {Item(FALSE, <<>>, <<>>)}
AjvVerdicts == {<<>>, <<Msg("schema", <<"/", "a", "g", "e", "n", "t", "s">>, 0)>>}

\* the readings of Date.now() while the records of a list are handled, in
\* milliseconds: a clock that does not advance during the call, or one that does
FrozenClock(n) == [i \in 1..n |-> 7]
TickingClock(n) == [i \in 1..n |-> 6 + i]

\* a legacy array of n records that all carry the same name
SameName(n) == [i \in 1..n |-> Item(TRUE, S_dev, <<>>)]

RawAgents(kind, items, schemaVersion, ajvErrors, clock) ==
  [kind |-> kind, items |-> items, schemaVersion |-> schemaVersion,
   ajvErrors |-> ajvErrors, clock |-> clock]

\* call is a call of the agents manifest builder
AgentsInputs ==
  \/ \E k \in {"blank", "invalid", "scalar"} :
        call = [fn |-> "agents", raw |-> RawAgents(k, <<>>, <<>>, <<>>, <<>>)]
  \/ \E items \in SeqsUpTo(LegacyItems, MaxAgents), ajv \in AjvVerdicts :
        call = [fn |-> "agents",
                raw |-> RawAgents("array", items, <<>>, ajv, FrozenClock(Len(items)))]
  \/ \E n \in 1..(SuffixLimit + 1) : \E clock \in {FrozenClock(n), TickingClock(n)} :
        call = [fn |-> "agents", raw |-> RawAgents("array", SameName(n), <<>>, <<>>, clock)]
  \/ \E items \in SeqsUpTo(V11Items, MaxAgents), v \in {<<>>, S_11, <<"2">>}, ajv \in AjvVerdicts :
        call = [fn |-> "agents", raw |-> RawAgents("object", items, v, ajv, <<>>)]

\* call is a call of the lenient agents parser
ParseInputs ==
  \/ \E k \in {"blank", "invalid", "scalar"} :
        call = [fn |-> "parse", raw |-> RawAgents(k, <<>>, <<>>, <<>>, <<>>)]
  \/ \E items \in SeqsUpTo(LegacyItems, MaxAgents) :
        call = [fn |-> "parse",
                raw |-> RawAgents("array", items, <<>>, <<>>, FrozenClock(Len(items)))]
  \/ \E n \in 1..(SuffixLimit + 1) : \E clock \in {FrozenClock(n), TickingClock(n)} :
        call = [fn |-> "parse", raw |-> RawAgents("array", SameName(n), <<>>, <<>>, clock)]
  \/ \E items \in SeqsUpTo(V11Items, MaxAgents) :
        call = [fn |-> "parse", raw |-> RawAgents("object", items, S_11, <<>>, <<>>)]

\* --- assembler inputs
Json(kind) == [kind |-> kind]
EntryOf(workflow, graph, agents) ==
  [kind |-> "object",
   entry |-> [present |-> TRUE, workflow |-> workflow, graph |-> graph, agents |-> agents]]
GoodBmad(id) ==
  EntryOf(buildWorkflowPaths(NumberToString(id)).workflow,
          buildWorkflowPaths(NumberToString(id)).graph, S_agents_json)
NoEntry == [present |-> FALSE, workflow |-> <<>>, graph |-> <<>>, agents |-> <<>>]
BmadPool ==
  {GoodBmad(1), GoodBmad(2),
   EntryOf(buildWorkflowPaths(<<"1">>).workflow, buildWorkflowPaths(<<"1">>).graph,
           <<".", "/">> \o S_agents_json),
   EntryOf(buildWorkflowPaths(<<"1">>).workflow, buildWorkflowPaths(<<"1">>).graph, <<>>),
   EntryOf(buildWorkflowPaths(<<"1">>).workflow, buildWorkflowPaths(<<"2">>).graph,
           <<".", "/">> \o S_agents_json),
   [kind |-> "object", entry |-> NoEntry],
   [kind |-> "blank", entry |-> NoEntry],
   [kind |-> "invalid", entry |-> NoEntry],
   [kind |-> "nonobject", entry |-> NoEntry]}

AgentsJson(kind, ids) ==
  [kind |-> kind, items |-> [i \in 1..Len(ids) |-> Item(TRUE, <<>>, ids[i])]]
AgentsJsonPool ==
  {AgentsJson("object", <<S_dev>>), AgentsJson("object", <<>>),
   AgentsJson("blank", <<>>), AgentsJson("invalid", <<>>)}

AssetPaths ==
  {S_assets \o S_x, <<"n", "o", "t">> \o S_assets \o S_x, S_assets \o <<".", ".", "/">> \o S_x,
   <<"/">> \o S_assets \o S_x, S_assets \o <<"/">> \o S_x, <<".", "/">> \o S_assets \o S_x}
\* the entries of an assets object: its keys are distinct
AssetsPool ==
  {None} \cup
  {Some(es) : es \in {q \in SeqsUpTo({[path |-> p, value |-> S_ok] : p \in AssetPaths}, MaxAssets) :
                        \A i, j \in 1..Len(q) : i # j => q[i].path # q[j].path}}

StepKey(id) == S_steps \o id \o S_md
StepEntry(key, isString, content) == [key |-> key, isString |-> isString, content |-> content]
Steps(entries) == [kind |-> "object", entries |-> entries]
StepsAB == Steps(<<StepEntry(StepKey(S_a), TRUE, S_ok), StepEntry(StepKey(S_b), TRUE, S_ok)>>)
StepsA == Steps(<<StepEntry(<<".", "/">> \o StepKey(S_a), TRUE, S_ok)>>)
StepsNone == Steps(<<>>)
StepsBad ==
  Steps(<<StepEntry(StepKey(S_a), TRUE, S_ok),
          StepEntry(S_x \o S_md, TRUE, S_ok),
          StepEntry(S_steps \o <<".", ".", "/">> \o S_b \o S_md, TRUE, S_ok),
          StepEntry(StepKey(S_b), TRUE, <<" ">>),
          StepEntry(StepKey(S_c), FALSE, <<>>)>>)
StepsInvalid == [kind |-> "invalid", entries |-> <<>>]

Graph(nodes, edges) == [kind |-> "object", nodes |-> nodes, edges |-> edges]
GraphA == Graph(<<Node(S_a, S_dev)>>, <<>>)
GraphGhost == Graph(<<Node(S_a, S_ghost)>>, <<>>)
GraphAB == Graph(<<Node(S_b, S_dev), Node(S_a, <<>>)>>, <<Edge(<<>>, S_a, S_b, <<>>, FALSE)>>)
GraphTwoStarts == Graph(<<Node(S_a, <<>>), Node(S_b, S_ghost)>>, <<>>)
GraphCycle == Graph(<<Node(S_a, <<>>), Node(S_a, S_dev)>>, <<Edge(<<>>, S_a, S_a, <<>>, FALSE)>>)
GraphDangling == Graph(<<Node(S_a, S_ghost)>>, <<Edge(<<>>, S_a, S_c, <<>>, FALSE)>>)
GraphNoNodes == Graph(<<>>, <<>>)
GraphInvalid == [kind |-> "invalid", nodes |-> <<>>, edges |-> <<>>]

Workflow(id, md, graphJson, stepFilesJson) ==
  [id |-> id, workflowMd |-> md, graphJson |-> graphJson, stepFilesJson |-> stepFilesJson]
WorkflowPool ==
  {Workflow(1, S_ok, g, st) :
     g \in {GraphA, GraphGhost, GraphAB, GraphTwoStarts, GraphCycle, GraphDangling,
            GraphNoNodes, GraphInvalid},
     st \in {StepsAB, StepsA, StepsNone, StepsBad, StepsInvalid}}
  \cup {Workflow(2, S_ok, g, st) : g \in {GraphA, GraphGhost}, st \in {StepsA, StepsNone}}
  \cup {Workflow(-1, S_ok, GraphA, StepsA), Workflow(1, <<" ">>, GraphA, StepsA)}

\* call is a call of the assembler
AssembleInputs ==
  \/ \E ws \in SeqsUpTo(WorkflowPool, MaxWorkflows) :
        call = [fn |-> "assemble", bmadJson |-> GoodBmad(1),
                agentsJson |-> AgentsJson("object", <<S_dev>>), workflows |-> ws, assets |-> None]
  \/ \E bm \in BmadPool, ag \in AgentsJsonPool, as \in AssetsPool,
        ws \in {<<>>, <<Workflow(1, S_ok, GraphA, StepsA)>>,
                 <<Workflow(1, S_ok, GraphGhost, StepsNone)>>} :
        call = [fn |-> "assemble", bmadJson |-> bm, agentsJson |-> ag, workflows |-> ws, assets |-> as]

\* --- validator inputs
Reading(isString, blank, json, ajvErrors) ==
  [isString |-> isString, blank |-> blank, json |-> json, lines |-> <<>>, yaml |-> "object",
   ajvErrors |-> ajvErrors, workflows |-> <<>>, entryWorkflow |-> <<>>]
BmadReading(ajvErrors, workflows, entryWorkflow) ==
  [Reading(TRUE, FALSE, "object", ajvErrors) EXCEPT
     !.workflows = workflows, !.entryWorkflow = entryWorkflow]
\* a markdown text of these lines; it is blank when all its lines are
Markdown(lines, yaml, ajvErrors) ==
  [Reading(TRUE, AllBlank(lines), "invalid", ajvErrors) EXCEPT !.lines = lines, !.yaml = yaml]

S_1 == <<"1">>
S_2 == <<"2">>
S_padded_1 == <<" ", "1">>
AjvError == <<Msg("schema", <<"/">>, 0)>>
GoodFile == Reading(TRUE, FALSE, "object", <<>>)
RejectedFile == Reading(TRUE, FALSE, "object", AjvError)
BytesFile == Reading(FALSE, FALSE, "invalid", <<>>)
BlankFile == Reading(TRUE, TRUE, "invalid", <<>>)
UnparsableFile == Reading(TRUE, FALSE, "invalid", <<>>)
NotObjectFile == Reading(TRUE, FALSE, "nonobject", <<>>)
Fenced == <<"fence", "text", "fence", "blank", "text">>
GoodMarkdown == Markdown(Fenced, "object", <<>>)
RejectedMarkdown == Markdown(Fenced, "object", AjvError)
BlankMarkdown == Markdown(<<"blank", "blank">>, "object", <<>>)

\* a file of the set: absent, or present and read in one of these ways
BmadReadings ==
  {None, Some(BytesFile), Some(BlankFile), Some(UnparsableFile), Some(NotObjectFile),
   Some(BmadReading(<<>>, <<S_1>>, <<>>)),
   Some(BmadReading(AjvError, <<S_1>>, <<>>)),
   Some(BmadReading(<<>>, <<S_1, S_padded_1, <<>>>>, <<>>)),
   Some(BmadReading(<<>>, <<S_2>>, <<>>)),
   Some(BmadReading(<<>>, <<>>, buildWorkflowPaths(S_1).workflow)),
   Some(BmadReading(<<>>, <<>>, <<>>))}
\* bmad.json naming a workflow directory whose name starts with a space
PaddedBmadReadings ==
  {Some(BmadReading(<<>>, <<>>, buildWorkflowPaths(S_padded_1).workflow)),
   Some(BmadReading(<<>>, <<>>, <<" ">> \o buildWorkflowPaths(S_padded_1).workflow \o <<" ">>)),
   Some(BmadReading(<<>>, <<S_padded_1>>, <<>>))}
AgentsReadings ==
  {None, Some(BytesFile), Some(BlankFile), Some(UnparsableFile), Some(NotObjectFile), Some(GoodFile),
   Some(RejectedFile)}
GraphReadings == {None, Some(UnparsableFile), Some(GoodFile), Some(RejectedFile)}
MarkdownReadings ==
  {None, Some(BlankMarkdown), Some(GoodMarkdown), Some(RejectedMarkdown),
   Some(Markdown(<<"text", "blank", "text">>, "object", <<>>)),
   Some(Markdown(<<"fence", "text", "text">>, "object", <<>>)),
   Some(Markdown(<<"blank", "fence", "text", "fence">>, "object", <<>>)),
   Some(Markdown(Fenced, "notobject", <<>>)),
   Some(Markdown(<<"fence", "blank", "fence">>, "throws", AjvError))}
StepReadings ==
  {None, Some(BytesFile), Some(GoodMarkdown), Some(RejectedMarkdown),
   Some(Markdown(<<"text">>, "object", AjvError)),
   Some(Markdown(<<"fence", "text", "indented-fence">>, "object", <<>>)),
   Some(Markdown(<<"indented-fence", "text", "fence">>, "object", <<>>)),
   Some(Markdown(<<"fence", "fence">>, "object", <<>>)),
   Some(Markdown(<<"fence", "fence", "text", "fence">>, "empty", <<>>)),
   Some(Markdown(Fenced, "throws", <<>>))}

\* the paths of a file set with one workflow directory
BundlePaths(dir) ==
  <<S_bmad_json, S_agents_json, buildWorkflowPaths(dir).graph, buildWorkflowPaths(dir).workflow,
    S_workflows \o dir \o <<"/">> \o StepKey(S_a)>>

\* the file set whose i-th path is present when options[i] is a reading
BundleFiles(dir, options) ==
  [path \in {BundlePaths(dir)[i] : i \in {j \in 1..Len(options) : options[j] # None}} |-> S_ok]
BundleRead(dir, options) ==
  [path \in {BundlePaths(dir)[i] : i \in {j \in 1..Len(options) : options[j] # None}} |->
     options[CHOOSE i \in 1..Len(options) : BundlePaths(dir)[i] = path][1]]

\* call is a call of the bundle validator on a supplied file set
ValidateInputs ==
  \/ \E bm \in BmadReadings, ag \in AgentsReadings, gr \in GraphReadings,
        md \in MarkdownReadings, st \in StepReadings :
       call = [fn |-> "validate",
               filesByPath |-> BundleFiles(S_1, <<bm, ag, gr, md, st>>),
               read |-> BundleRead(S_1, <<bm, ag, gr, md, st>>)]
  \/ \E bm \in PaddedBmadReadings, gr \in GraphReadings,
        md \in MarkdownReadings, st \in StepReadings, dir \in {S_1, S_padded_1} :
       call = [fn |-> "validate",
               filesByPath |-> BundleFiles(dir, <<bm, Some(GoodFile), gr, md, st>>),
               read |-> BundleRead(dir, <<bm, Some(GoodFile), gr, md, st>>)]

\* --- export inputs
VerdictOf(bmad, lines, workflows) ==
  [bmad |-> bmad, agents |-> <<>>, graph |-> <<>>, markdown |-> <<>>,
   lines |-> lines, workflows |-> workflows]
Verdicts ==
  {VerdictOf(<<>>, Fenced, <<S_1>>), VerdictOf(AjvError, Fenced, <<S_1>>),
   VerdictOf(<<>>, <<"fence", "text">>, <<S_1>>), VerdictOf(<<>>, Fenced, <<S_2>>)}

ExportCall(fn, precheck, fetch, bmadJson, workflows, assets, verdict, zipFails) ==
  [fn |-> fn, precheck |-> precheck, fetch |-> fetch, bmadJson |-> bmadJson,
   agentsJson |-> AgentsJson("object", <<S_dev>>), workflows |-> workflows,
   assets |-> assets, verdict |-> verdict, zipFails |-> zipFails]

ExportedWorkflows ==
  {<<Workflow(1, S_ok, GraphA, StepsA)>>, <<Workflow(1, S_ok, GraphGhost, StepsNone)>>}
ExportedAssets == {None, Some(<<[path |-> S_assets \o S_x, value |-> S_ok]>>)}

\* call is a run of the export handler of the project page
ExportInputs ==
  \/ \E precheck \in {"apiEnvError", "noProject", "noData", "exporting", "noBmad",
                       "noAgents", "assetsError", "assetsParseError"} :
        call = ExportCall("export", precheck, "ok", GoodBmad(1),
                          <<Workflow(1, S_ok, GraphA, StepsA)>>, None,
                          VerdictOf(<<>>, Fenced, <<S_1>>), FALSE)
  \/ \E fetch \in {"ok", "failed", "throws"}, bm \in {GoodBmad(1), GoodBmad(2)},
        ws \in ExportedWorkflows, as \in ExportedAssets, v \in Verdicts, zf \in BOOLEAN :
        call = ExportCall("export", "ok", fetch, bm, ws, as, v, zf)

\* call is a call of buildBmadZipBundleV11
ZipInputs ==
  \E bm \in {GoodBmad(1), GoodBmad(2)}, ws \in ExportedWorkflows, as \in ExportedAssets,
     v \in Verdicts, zf \in BOOLEAN :
    call = ExportCall("zip", "ok", "ok", bm, ws, as, v, zf)

NoResult == <<>>

\* ------------------------------------------------------------ state machine
\* One call of one pipeline function: `call` holds the function and its
\* arguments, `result` what it returned.
Init ==
  /\ pc = "ready"
  /\ \/ CompileInputs
     \/ ManifestInputs
     \/ AgentsInputs
     \/ ParseInputs
     \/ ValidateInputs
     \/ ExportInputs
     \/ ZipInputs
     \/ AssembleInputs
  /\ result = NoResult

Compile ==
  /\ pc = "ready"
  /\ call.fn = "compile"
  /\ result' = buildWorkflowGraphV11(call.nodes, call.edges)
  /\ pc' = "done"
  /\ UNCHANGED call

BuildManifest ==
  /\ pc = "ready"
  /\ call.fn = "manifest"
  /\ result' = buildBmadManifestV11(call.projectName, call.workflows, call.createdAt, call.version)
  /\ pc' = "done"
  /\ UNCHANGED call

BuildAgents ==
  /\ pc = "ready"
  /\ call.fn = "agents"
  /\ result' = buildAgentsManifestV11(call.raw)
  /\ pc' = "done"
  /\ UNCHANGED call

ParseAgents ==
  /\ pc = "ready"
  /\ call.fn = "parse"
  /\ result' = parseAgentsJson(call.raw)
  /\ pc' = "done"
  /\ UNCHANGED call

Validate ==
  /\ pc = "ready"
  /\ call.fn = "validate"
  /\ result' = validateExportBundleV11(call.filesByPath, call.read)
  /\ pc' = "done"
  /\ UNCHANGED call

Assemble ==
  /\ pc = "ready"
  /\ call.fn = "assemble"
  /\ result' = buildBmadExportFilesV11(call.bmadJson, call.agentsJson, call.workflows, call.assets)
  /\ pc' = "done"
  /\ UNCHANGED call

\* exportPackageV11 up to the fetch of the workflow details
ExportBegin ==
  /\ pc = "ready"
  /\ call.fn = "export"
  /\ result' = IF ExportPrecheck(call.precheck) # None THEN ExportPrecheck(call.precheck)[1]
                ELSE [ExportIdle EXCEPT !.exporting = TRUE]
  /\ pc' = IF ExportPrecheck(call.precheck) # None THEN "done" ELSE "fetching"
  /\ UNCHANGED call

\* from the fetched details to the call of the archive writer
ExportFetched ==
  /\ pc = "fetching"
  /\ call.fn = "export"
  /\ result' = ExportFetchedTo(result, call).state
  /\ pc' = ExportFetchedTo(result, call).pc
  /\ UNCHANGED call

\* the archive is handed to the browser, or the failure is shown
ExportZipped ==
  /\ pc = "zipping"
  /\ call.fn = "export"
  /\ result' = ExportZippedTo(result, call.zipFails)
  /\ pc' = "done"
  /\ UNCHANGED call

ZipBuild ==
  /\ pc = "ready"
  /\ call.fn = "zip"
  /\ result' = ZipBuilt(buildBmadExportFilesV11(call.bmadJson, call.agentsJson,
                                                call.workflows, call.assets))
  /\ pc' = IF result'.filesByPath = None THEN "done" ELSE "zipping"
  /\ UNCHANGED call

ZipGenerated ==
  /\ pc = "zipping"
  /\ call.fn = "zip"
  /\ result' = ZipGeneratedTo(result, call.zipFails)
  /\ pc' = "done"
  /\ UNCHANGED call

Next ==
  \/ Compile
  \/ BuildManifest
  \/ BuildAgents
  \/ ParseAgents
  \/ Validate
  \/ Assemble
  \/ ExportBegin
  \/ ExportFetched
  \/ ExportZipped
  \/ ZipBuild
  \/ ZipGenerated

Spec == Init /\ [][Next]_vars

\* ------------------------------------------------------------ agent deletion
\* deleteAgent of the project page.  `call` holds the agent to delete, the
\* agent ids of the manifest, the reason of an early return, what the user
\* answers to window.confirm, how the PUT settles and, per workflow of the
\* project, what the server holds and how its detail fetch settles:
\* [fetch, graph, nodes] with fetch "ok" or "error", graph "array" (nodes is
\* an array), "notarray" or "throws" (JSON.parse throws), nodes the nodes of
\* the stored graph as [hasData, agentId].  `result` is the component state
\* and the locals of the handler: actionError, deletingId, refs, fetched (the
\* number of detail fetches that have settled), sent (the manifest the PUT
\* carries) and data (the package the PUT returned).

GraphNode(hasData, agentId) == [hasData |-> hasData, agentId |-> agentId]

\* nodes.filter(...).length
CountRefs(nodes, agentId) ==
  Cardinality({i \in 1..Len(nodes) : nodes[i].hasData /\ nodes[i].agentId = agentId})

DeleteIdle ==
  [actionError |-> None, deletingId |-> None, refs |-> <<>>, fetched |-> 0,
   sent |-> None, data |-> None]

\* the early returns of deleteAgent: the state they leave, None when the
\* deletion goes on
DeletePrecheck(c) ==
  IF c.precheck \in {"apiEnvError", "noProject", "agentsError"} THEN Some(DeleteIdle)
  ELSE IF c.precheck = "deleting" THEN Some([DeleteIdle EXCEPT !.deletingId = Some(S_qa)])
  ELSE IF Len(c.agents) <= 1
    THEN Some([DeleteIdle EXCEPT !.actionError = Some(Msg("keep-one-agent", <<>>, 0))])
  ELSE None

\* the body of the loop over activeWorkflows once the fetch has settled
RefsAfter(refs, wf, index, agentId) ==
  IF wf.fetch # "ok" THEN refs
  ELSE IF wf.graph # "array" THEN refs
  ELSE IF CountRefs(wf.nodes, agentId) > 0
    THEN Append(refs, [workflowId |-> index, count |-> CountRefs(wf.nodes, agentId)])
  ELSE refs

Without(agents, agentId) == SelectSeq(agents, LAMBDA a : a # agentId)

\* deleteAgent after the loop, up to its await of the PUT
DeleteDecided(state, c) ==
  IF state.refs # <<>>
    THEN [pc |-> "done",
          state |-> [state EXCEPT
                       !.actionError =
                          Some(Msg("referenced", <<>>,
                                   Len(SubSeq(state.refs, 1, IF Len(state.refs) < 3
                                                              THEN Len(state.refs) ELSE 3)))),
                       !.deletingId = None]]
  ELSE IF ~c.confirm THEN [pc |-> "done", state |-> [state EXCEPT !.deletingId = None]]
  ELSE [pc |-> "putting", state |-> [state EXCEPT !.sent = Some(Without(c.agents, c.agentId))]]

\* the loop from one settled fetch to the next await
DeleteFetchedTo(state, c) ==
  LET index == state.fetched + 1
      after == [state EXCEPT !.fetched = index,
                             !.refs = RefsAfter(state.refs, c.workflows[index], index, c.agentId)]
  IN IF index < Len(c.workflows) THEN [pc |-> "fetching", state |-> after]
     ELSE DeleteDecided(after, c)

\* the handler from its call to its first await
DeleteBegunTo(c) ==
  IF DeletePrecheck(c) # None THEN [pc |-> "done", state |-> DeletePrecheck(c)[1]]
  ELSE IF c.workflows = <<>>
    THEN DeleteDecided([DeleteIdle EXCEPT !.deletingId = Some(c.agentId)], c)
  ELSE [pc |-> "fetching", state |-> [DeleteIdle EXCEPT !.deletingId = Some(c.agentId)]]

\* the PUT has settled
DeletePutTo(state, c) ==
  IF c.put # "ok"
    THEN [state EXCEPT !.deletingId = None, !.actionError = Some(Msg("delete-failed", <<>>, 0))]
  ELSE [state EXCEPT !.deletingId = None, !.data = state.sent, !.actionError = None]

StoredGraphs ==
  {[fetch |-> f, graph |-> g, nodes |-> <<>>] : f \in {"ok", "error"}, g \in {"notarray", "throws"}}
  \cup {[fetch |-> f, graph |-> "array", nodes |-> ns] :
          f \in {"ok", "error"},
          ns \in {<<>>, <<GraphNode(TRUE, S_dev)>>, <<GraphNode(TRUE, S_qa)>>,
                  <<GraphNode(TRUE, S_dev), GraphNode(FALSE, S_dev), GraphNode(TRUE, S_dev)>>}}

DeleteCall(precheck, agents, workflows, confirm, put) ==
  [fn |-> "delete", agentId |-> S_dev, precheck |-> precheck, agents |-> agents,
   workflows |-> workflows, confirm |-> confirm, put |-> put]

\* the stored workflows of the project, at most MaxStored of them
MaxStored == 2

DeleteInit ==
  /\ pc = "ready"
  /\ result = NoResult
  /\ \/ \E precheck \in {"apiEnvError", "noProject", "agentsError", "deleting"} :
          call = DeleteCall(precheck, <<S_dev, S_qa>>, <<>>, TRUE, "ok")
     \/ \E agents \in {<<S_dev>>, <<S_dev, S_qa>>}, ws \in SeqsUpTo(StoredGraphs, MaxStored),
           confirm \in BOOLEAN, put \in {"ok", "error"} :
          call = DeleteCall("ok", agents, ws, confirm, put)

DeleteBegin ==
  /\ pc = "ready"
  /\ pc' = DeleteBegunTo(call).pc
  /\ result' = DeleteBegunTo(call).state
  /\ UNCHANGED call

DeleteFetched ==
  /\ pc = "fetching"
  /\ pc' = DeleteFetchedTo(result, call).pc
  /\ result' = DeleteFetchedTo(result, call).state
  /\ UNCHANGED call

DeletePut ==
  /\ pc = "putting"
  /\ pc' = "done"
  /\ result' = DeletePutTo(result, call)
  /\ UNCHANGED call

DeleteNext ==
  \/ DeleteBegin
  \/ DeleteFetched
  \/ DeletePut

DeleteSpec == DeleteInit /\ [][DeleteNext]_vars

\* ------------------------------------------------- schema validator registry
\* The module variables of ajv-validators-v11.ts (ajvInstance and one
\* variable per document kind) and validateAgentsSchemaV11 of
\* agents-manifest-v11.ts.  A validator is [serial, errors]: serial counts
\* the validators compiled into its variable, errors is the property the
\* callers read after a call ("unset" before the first call).
Kinds == {"bmad", "agents", "workflowGraph", "workflowFrontmatter", "stepFrontmatter"}
RegistrySlots == {<<"registry", k>> : k \in Kinds}
ManifestSlot == <<"manifest", "agents">>
Slots == RegistrySlots \cup {ManifestSlot}

EmptyRegistry ==
  [ajvInstance |-> None,
   ajvBuilt |-> 0,
   slots |-> [s \in Slots |-> None],
   built |-> [s \in Slots |-> 0],
   returned |-> None]

\* getAjvV11: the shared instance is made on the first request
getAjvV11(state) ==
  IF state.ajvInstance # None THEN state
  ELSE [state EXCEPT !.ajvInstance = Some("ajv"), !.ajvBuilt = @ + 1]

\* ajv.compile(schema) assigned to the variable of the slot
Compiled_Into(state, slot) ==
  [state EXCEPT !.slots[slot] = Some([serial |-> state.built[slot] + 1, errors |-> "unset"]),
                !.built[slot] = @ + 1,
                !.returned = Some(<<slot, state.built[slot] + 1>>)]

\* the five exported getters of the registry
getSchemaValidatorV11(state, kind) ==
  IF state.slots[<<"registry", kind>>] # None
    THEN [state EXCEPT !.returned = Some(<<<<"registry", kind>>, state.slots[<<"registry", kind>>][1].serial>>)]
  ELSE Compiled_Into(getAjvV11(state), <<"registry", kind>>)

\* the getter of agents-manifest-v11.ts, with an Ajv of its own
getAgentsSchemaValidatorV11(state) ==
  IF state.slots[ManifestSlot] # None
    THEN [state EXCEPT !.returned = Some(<<ManifestSlot, state.slots[ManifestSlot][1].serial>>)]
  ELSE Compiled_Into(state, ManifestSlot)

\* validate(value): the error list of the validator is replaced
CallValidator(state, slot, ok) ==
  [state EXCEPT !.slots[slot] = Some([@[1] EXCEPT !.errors = IF ok THEN "null" ELSE "errors"])]

\* a call site of the bundle validator: getter, then validate
ValidateWith(state, kind, ok) ==
  CallValidator(getSchemaValidatorV11(state, kind), <<"registry", kind>>, ok)

\* validateAgentsManifestV11 as it acts on the validator it fetches
ValidateAgentsManifestCall(state, ok) ==
  CallValidator(getAgentsSchemaValidatorV11(state), ManifestSlot, ok)

RegistryInit ==
  /\ pc = "ready"
  /\ call = [fn |-> "load"]
  /\ result = EmptyRegistry

GetSchemaValidator ==
  \E kind \in Kinds :
     /\ call' = [fn |-> "get", kind |-> kind]
     /\ result' = getSchemaValidatorV11(result, kind)
     /\ UNCHANGED pc

GetAgentsSchemaValidator ==
  /\ call' = [fn |-> "getAgents"]
  /\ result' = getAgentsSchemaValidatorV11(result)
  /\ UNCHANGED pc

ValidateBundleFile ==
  \E kind \in Kinds, ok \in BOOLEAN :
     /\ call' = [fn |-> "validate", kind |-> kind, ok |-> ok]
     /\ result' = ValidateWith(result, kind, ok)
     /\ UNCHANGED pc

ValidateAgentsManifest ==
  \E ok \in BOOLEAN :
     /\ call' = [fn |-> "validateAgentsManifest", ok |-> ok]
     /\ result' = ValidateAgentsManifestCall(result, ok)
     /\ UNCHANGED pc

RegistryNext ==
  \/ GetSchemaValidator
  \/ GetAgentsSchemaValidator
  \/ ValidateBundleFile
  \/ ValidateAgentsManifest

RegistrySpec == RegistryInit /\ [][RegistryNext]_vars

\* ------------------------------------------------------ tool policy objects
\* The objects behind the tools of the agents that buildAgentsManifestV11
\* returns.  An object lives at an address of the heap; the address owner 0
\* is the module constant DEFAULT_TOOLS, owner b > 0 is the b-th build.  The
\* allowedServers array is kept inside its mcp object: every array is
\* reached through exactly one mcp object.
MaxBuilds == 2
MaxBuildAgents == 2
MaxMutations == 2

Addr(owner, agent, part) == [owner |-> owner, agent |-> agent, part |-> part]

\* const DEFAULT_TOOLS = { fs: { enabled: true }, mcp: { enabled: false, allowedServers: [] } }
DEFAULT_TOOLS == [fs |-> Addr(0, 0, "fs"), mcp |-> Addr(0, 0, "mcp")]
HeapAtLoad ==
  [x \in {DEFAULT_TOOLS.fs, DEFAULT_TOOLS.mcp} |->
     IF x.part = "fs" THEN [enabled |-> TRUE]
     ELSE [enabled |-> FALSE, allowedServers |-> <<>>]]

\* the tools value of an agent record as parsed: absent, not an object, or
\* an object whose fields may be missing
RawTools(kind, fsEnabled, mcpEnabled, allowedServers) ==
  [kind |-> kind, fsEnabled |-> fsEnabled, mcpEnabled |-> mcpEnabled,
   allowedServers |-> allowedServers]
NoTools == RawTools("absent", None, None, None)
MalformedTools == RawTools("malformed", None, None, None)
ToolsInputs ==
  {NoTools, MalformedTools,
   RawTools("object", Some(FALSE), None, None),
   RawTools("object", None, Some(TRUE), Some(<<S_x, <<" ">>>>))}

NonBlank(v) == trim(v) # <<>>

\* normalizeTools: { ...DEFAULT_TOOLS } copies the two references of the
\* constant; an object is rebuilt field by field into new objects
normalizeTools(raw, owner, agent) ==
  IF raw.kind # "object" THEN [tools |-> DEFAULT_TOOLS, fs |-> None, mcp |-> None]
  ELSE [tools |-> [fs |-> Addr(owner, agent, "fs"), mcp |-> Addr(owner, agent, "mcp")],
        fs |-> Some([enabled |-> IF raw.fsEnabled = None THEN TRUE ELSE raw.fsEnabled[1]]),
        mcp |-> Some([enabled |-> IF raw.mcpEnabled = None THEN FALSE ELSE raw.mcpEnabled[1],
                      allowedServers |-> IF raw.allowedServers = None THEN <<>>
                                         ELSE SelectSeq(raw.allowedServers[1], NonBlank)])]

\* the tools of the agents of one build: legacy records get
\* { ...DEFAULT_TOOLS }, v1.1 records normalizeTools(agent.tools)
BuiltTools(format, raws, owner) ==
  [a \in 1..Len(raws) |->
     IF format = "legacy" THEN normalizeTools(NoTools, owner, a)
     ELSE normalizeTools(raws[a], owner, a)]

\* the heap after a build
HeapWith(heap, built) ==
  LET new == {built[a].tools.fs : a \in 1..Len(built)} \cup {built[a].tools.mcp : a \in 1..Len(built)}
      Maker(x) == CHOOSE a \in 1..Len(built) : x \in {built[a].tools.fs, built[a].tools.mcp}
  IN [x \in DOMAIN heap \cup new |->
        IF x \in DOMAIN heap THEN heap[x]
        ELSE IF x.part = "fs" THEN built[Maker(x)].fs[1] ELSE built[Maker(x)].mcp[1]]

BuildInto(state, format, raws) ==
  LET built == BuiltTools(format, raws, Len(state.manifests) + 1)
  IN [state EXCEPT
        !.heap = HeapWith(@, built),
        !.manifests = Append(@, [a \in 1..Len(built) |-> built[a].tools])]

\* a caller writes through a manifest it was given
MutateThrough(state, b, a, what) ==
  LET tools == state.manifests[b][a]
  IN [state EXCEPT
        !.mutations = @ + 1,
        !.heap = CASE what = "fs.enabled" -> [@ EXCEPT ![tools.fs].enabled = FALSE]
                   [] what = "mcp.enabled" -> [@ EXCEPT ![tools.mcp].enabled = TRUE]
                   [] what = "allowedServers.push" ->
                        [@ EXCEPT ![tools.mcp].allowedServers = Append(@, S_t)]]

ToolsInit ==
  /\ pc = "ready"
  /\ call = [fn |-> "load"]
  /\ result = [heap |-> HeapAtLoad, manifests |-> <<>>, mutations |-> 0]

BuildAgentsTools ==
  /\ Len(result.manifests) < MaxBuilds
  /\ \E format \in {"legacy", "v11"}, n \in 1..MaxBuildAgents :
        \E raws \in [1..n -> IF format = "legacy" THEN {NoTools} ELSE ToolsInputs] :
           /\ call' = [fn |-> "build", format |-> format, tools |-> raws]
           /\ result' = BuildInto(result, format, raws)
  /\ UNCHANGED pc

MutateManifest ==
  /\ result.mutations < MaxMutations
  /\ \E b \in 1..Len(result.manifests) :
        \E a \in 1..Len(result.manifests[b]),
           what \in {"fs.enabled", "mcp.enabled", "allowedServers.push"} :
           /\ call' = [fn |-> "mutate", b |-> b, a |-> a, what |-> what]
           /\ result' = MutateThrough(result, b, a, what)
  /\ UNCHANGED pc

ToolsNext ==
  \/ BuildAgentsTools
  \/ MutateManifest

ToolsSpec == ToolsInit /\ [][ToolsNext]_vars

\* --------------------------------------------------- editor save and autosave
\* The editor page once a workflow is loaded: the content being edited (the
\* graph and the workflow variables), lastSavedSignature, saveStatus, the
\* autosave timer, the PUT in flight and the content the server holds.  A
\* graph is one of three drawings, "cyclic" the one with a circular
\* dependency (execution.error).
MaxEdits == 3

EditorGraphs == {"g0", "g1", "cyclic"}
VariableRow(key, value) == [key |-> key, value |-> value]
VariableLists ==
  {<<>>,
   <<VariableRow(S_x, "v")>>,
   <<VariableRow(S_x, "v"), VariableRow(<<" ">>, "z")>>,
   <<VariableRow(S_x, "w"), VariableRow(S_x, "v")>>,
   <<VariableRow(S_x, "w")>>}

\* the rows with a key, the last row of a key giving its value
NormalizedVariables(variables) ==
  {<<trim(variables[i].key), variables[i].value>> :
     i \in {j \in 1..Len(variables) :
              /\ trim(variables[j].key) # <<>>
              /\ \A m \in (j + 1)..Len(variables) :
                    trim(variables[m].key) # trim(variables[j].key)}}

workflowVariablesSignature(variables) == NormalizedVariables(variables)
serializeWorkflowVariablesToFrontmatter(variables) == NormalizedVariables(variables)

\* contentSignature of a render
contentSignature(nodes, workflowVariables) ==
  [graph |-> nodes, variables |-> workflowVariablesSignature(workflowVariables), format |-> "v1.1"]

\* the body of the PUT of a render
SaveBody(nodes, workflowVariables) ==
  [graph |-> nodes, workflow_md |-> serializeWorkflowVariablesToFrontmatter(workflowVariables)]

ExecutionError(state) == state.nodes = "cyclic"

dirty(state) ==
  /\ state.lastSavedSignature # None
  /\ contentSignature(state.nodes, state.workflowVariables) # state.lastSavedSignature[1]

\* the autosave effect of a render: the timer of the last render is cleared,
\* a new one is set when the guards pass
AutosaveEffect(state) ==
  [state EXCEPT !.timer = /\ ~ExecutionError(state)
                          /\ state.lastSavedSignature # None
                          /\ dirty(state)
                          /\ state.saveStatus # "saving"]

\* saveContent up to its await: the values of the render it was made in
saveContentBegin(state) ==
  IF ExecutionError(state) THEN [state EXCEPT !.saveStatus = "failed"]
  ELSE IF state.saveStatus = "saving" THEN state
  ELSE [state EXCEPT
          !.saveStatus = "saving",
          !.inflight = Some([body |-> SaveBody(state.nodes, state.workflowVariables),
                             signature |-> contentSignature(state.nodes, state.workflowVariables)])]

\* variant: the signature is read when the response arrives
saveContentEnd_MarksCurrent(state, ok) ==
  IF ~ok THEN [state EXCEPT !.saveStatus = "failed", !.inflight = None]
  ELSE [state EXCEPT
          !.lastSavedSignature = Some(contentSignature(state.nodes, state.workflowVariables)),
          !.saveStatus = "saved",
          !.inflight = None,
          !.server = state.inflight[1].body]

\* saveContent after its await
saveContentEnd(state, ok) ==
  IF ~ok THEN [state EXCEPT !.saveStatus = "failed", !.inflight = None]
  ELSE [state EXCEPT
          !.lastSavedSignature = Some(state.inflight[1].signature),
          !.saveStatus = "saved",
          !.inflight = None,
          !.server = state.inflight[1].body]

\* the state the load effect leaves: the stored content is shown; a stored
\* content in a legacy form gets a signature that differs from the shown one
LoadedEditor(nodes, workflowVariables, legacy) ==
  AutosaveEffect(
    [nodes |-> nodes,
     workflowVariables |-> workflowVariables,
     lastSavedSignature |->
       Some([contentSignature(nodes, workflowVariables)
               EXCEPT !.format = IF legacy THEN "legacy" ELSE "v1.1"]),
     saveStatus |-> "saved",
     timer |-> FALSE,
     inflight |-> None,
     server |-> IF legacy THEN [graph |-> nodes, workflow_md |-> "legacy"]
                ELSE SaveBody(nodes, workflowVariables),
     edits |-> 0])

EditorInit ==
  /\ pc = "ready"
  /\ call = [fn |-> "load"]
  /\ \E nodes \in EditorGraphs \ {"cyclic"}, legacy \in BOOLEAN :
        result = LoadedEditor(nodes, <<>>, legacy)

\* the user changes the graph or the variables
EditContent ==
  /\ result.edits < MaxEdits
  /\ \E nodes \in EditorGraphs, variables \in VariableLists :
        /\ nodes # result.nodes \/ variables # result.workflowVariables
        /\ nodes = result.nodes \/ variables = result.workflowVariables
        /\ call' = [fn |-> "edit"]
        /\ result' = AutosaveEffect([result EXCEPT !.nodes = nodes,
                                                   !.workflowVariables = variables,
                                                   !.edits = @ + 1])
  /\ UNCHANGED pc

\* the autosave timer fires: saveContent("auto")
AutosaveFires ==
  /\ result.timer
  /\ call' = [fn |-> "auto"]
  /\ result' = AutosaveEffect(saveContentBegin([result EXCEPT !.timer = FALSE]))
  /\ pc' = IF result'.inflight # None THEN "saving" ELSE pc

\* Save now: the button is enabled when dirty, not saving and without error
SaveNow ==
  /\ dirty(result) /\ result.saveStatus # "saving" /\ ~ExecutionError(result)
  /\ call' = [fn |-> "manual"]
  /\ result' = AutosaveEffect(saveContentBegin(result))
  /\ pc' = IF result'.inflight # None THEN "saving" ELSE pc

\* the PUT settles
SaveSettles ==
  /\ pc = "saving"
  /\ \E ok \in BOOLEAN :
        /\ call' = [fn |-> "settled", ok |-> ok]
        /\ result' = AutosaveEffect(saveContentEnd(result, ok))
  /\ pc' = "ready"

EditorNext ==
  \/ EditContent
  \/ AutosaveFires
  \/ SaveNow
  \/ SaveSettles

EditorSpec == EditorInit /\ [][EditorNext]_vars

\* the timer fires unless it is cleared, and the request settles
EditorFairSpec == EditorSpec /\ WF_vars(AutosaveFires) /\ WF_vars(SaveSettles)

\* ------------------------------------------------------------------ claims
HasMsg(msgs, kind) == \E i \in 1..Len(msgs) : msgs[i].kind = kind

\* the result-or-null field of the function that was called
Returned ==
  IF call.fn = "compile" THEN result.graph
  ELSE IF call.fn = "assemble" THEN result.filesByPath
  ELSE result.manifest

\* C1: for graph compile, agent manifest build, package manifest build and
\* export assembly, the returned result is null if and only if the returned
\* errors list is non-empty.
C1_NullIffErrors ==
  (pc = "done" /\ call.fn \in {"compile", "agents", "manifest", "assemble"}) =>
    (Returned = None <=> result.errors # <<>>)

C1_Witness ==
  /\ pc = "done"
  /\ call.fn = "agents"
  /\ call.raw.kind = "array"
  /\ call.raw.ajvErrors # <<>>
  /\ \E i \in 1..Len(call.raw.items) : call.raw.items[i].name = S_dev
  /\ result.manifest = None
  /\ result.errors # <<>>

Compiled == pc = "done" /\ call.fn = "compile"
CompiledOk == Compiled /\ result.graph # None

\* the input graph as the claims read it: the nodes that have an id and the
\* input edges whose endpoints both exist
InputIds == {call.nodes[i].id : i \in 1..Len(call.nodes)} \ {<<>>}
InputEdgeIdx ==
  {i \in 1..Len(call.edges) : call.edges[i].source \in InputIds /\ call.edges[i].target \in InputIds}
InputIndegree(id) == Cardinality({i \in InputEdgeIdx : call.edges[i].target = id})
InputStarts == {id \in InputIds : InputIndegree(id) = 0}
InputSucc(id) == {call.edges[i].target : i \in {j \in InputEdgeIdx : call.edges[j].source = id}}
\* a directed cycle exists iff some non-empty set of nodes is closed under
\* "has a successor in the set"
InputHasCycle ==
  \E S \in SUBSET InputIds :
     S # {} /\ \A v \in S : InputSucc(v) \cap S # {}

GraphIds(g) == {g.nodes[i].id : i \in 1..Len(g.nodes)}

HasTopologicalOrder(g) ==
  \E ord \in [GraphIds(g) -> 1..Len(g.nodes)] :
     /\ \A u, v \in GraphIds(g) : u # v => ord[u] # ord[v]
     /\ \A i \in 1..Len(g.edges) : ord[g.edges[i].from] < ord[g.edges[i].to]

\* C2: compile reports the cycle error (and returns no graph) exactly when the
\* input edges between existing nodes contain a directed cycle, and every
\* compiled graph has a topological order over all its nodes.
C2_CycleIffError ==
  Compiled =>
    /\ HasMsg(result.errors, "cycle") <=> InputHasCycle
    /\ HasMsg(result.errors, "cycle") => result.graph = None
    /\ result.graph # None =>
         /\ Cardinality(GraphIds(result.graph[1])) = Len(result.graph[1].nodes)
         /\ HasTopologicalOrder(result.graph[1])

C2_Witness ==
  /\ Compiled
  /\ HasMsg(result.errors, "cycle")
  /\ Len(call.edges) = 2
  /\ call.edges[1].source # call.edges[1].target

\* C3: the entry node of a compiled graph is the lowest id among the nodes of
\* in-degree 0; the multiple-start warning is emitted exactly when more than
\* one node has in-degree 0; one node without edges compiles to that entry
\* and no edges.
C3_EntryIsLowestStart ==
  Compiled =>
    /\ result.graph # None =>
         /\ result.graph[1].entryNodeId \in InputStarts
         /\ \A id \in InputStarts : localeCompare(result.graph[1].entryNodeId, id) <= 0
    /\ HasMsg(result.warnings, "multiple-start-nodes") <=> Cardinality(InputStarts) > 1
    /\ (Len(call.nodes) = 1 /\ call.edges = <<>> /\ NODE_ID_PATTERN(call.nodes[1].id)) =>
         /\ result.graph # None
         /\ result.graph[1].entryNodeId = call.nodes[1].id
         /\ result.graph[1].edges = <<>>

C3_Witness ==
  /\ CompiledOk
  /\ Cardinality(InputStarts) > 1
  /\ call.nodes[1].id # result.graph[1].entryNodeId
  /\ HasMsg(result.warnings, "multiple-start-nodes")

RECURSIVE ReachFrom(_, _, _)
\* nodes reached from the set S in at most k steps along the emitted edges
ReachFrom(S, g, k) ==
  IF k = 0 THEN S
  ELSE ReachFrom(S \cup {g.edges[i].to : i \in {j \in 1..Len(g.edges) : g.edges[j].from \in S}},
                 g, k - 1)

AllReachable(g) == ReachFrom({g.entryNodeId}, g, Len(g.nodes)) = GraphIds(g)

\* C4 as stated: in every compiled graph every node is reachable from the
\* entry node along the emitted edges.
C4_Original_AllReachable == CompiledOk => AllReachable(result.graph[1])

\* C4 amended: in every compiled graph with exactly one node of in-degree 0
\* every node is reachable from the entry node along the emitted edges.
C4_ReachableWhenSingleStart ==
  (CompiledOk /\ Cardinality(InputStarts) = 1) => AllReachable(result.graph[1])

C4_Witness ==
  /\ CompiledOk
  /\ Cardinality(InputStarts) = 1
  /\ Len(result.graph[1].nodes) = 3
  /\ Len(result.graph[1].edges) = 2

\* stable-key order of the input edges of one source, as the claims read it
SourceEdges(s) == {i \in InputEdgeIdx : call.edges[i].source = s}
KeyOf(i) == stableEdgeSortKey(call.edges[i], i - 1)
Before(j, i) ==
  \/ localeCompare(KeyOf(j), KeyOf(i)) < 0
  \/ localeCompare(KeyOf(j), KeyOf(i)) = 0 /\ j < i
PosInGroup(i) ==
  1 + Cardinality({j \in SourceEdges(call.edges[i].source) \ {i} : Before(j, i)})
OutOf(g, s) == LET From(e) == e.from = s IN SelectSeq(g.edges, From)
\* the emitted edge that stands for input edge i
Emitted(g, i) == OutOf(g, call.edges[i].source)[PosInGroup(i)]
Blank(i) == trim(call.edges[i].label) = <<>>
Flagged(i) == call.edges[i].isDefault
MultiSources == {s \in InputIds : Cardinality(SourceEdges(s)) > 1}

\* C5 as stated: a lone unlabeled edge is emitted as "next"; the unlabeled
\* edges of a source with several edges are emitted as branch-1, branch-2, ...
\* in stable-key order, the first unlabeled one as branch-1; explicit labels
\* are kept.
C5_Original_AutoLabels ==
  CompiledOk =>
    \A i \in InputEdgeIdx :
       LET group == SourceEdges(call.edges[i].source)
           k == 1 + Cardinality({j \in group \ {i} : Blank(j) /\ Before(j, i)})
           label == Emitted(result.graph[1], i).label
       IN /\ ~Blank(i) => label = trim(call.edges[i].label)
          /\ (Blank(i) /\ Cardinality(group) = 1) => label = S_next
          /\ (Blank(i) /\ Cardinality(group) > 1) => label = S_branch \o NumberToString(k)

\* C6 as stated: a source with several outgoing edges, none flagged isDefault,
\* gets no emitted edge with isDefault:true.
C6_Original_NoImplicitDefault ==
  CompiledOk =>
    \A s \in MultiSources :
       (\A i \in SourceEdges(s) : ~Flagged(i)) =>
          \A k \in 1..Len(OutOf(result.graph[1], s)) : ~OutOf(result.graph[1], s)[k].isDefault

\* C6 amended: a source with several outgoing edges, none flagged isDefault,
\* gets exactly one emitted edge with isDefault:true, its first edge in
\* stable-key order.
C6_ImplicitDefaultIsFirst ==
  CompiledOk =>
    \A s \in MultiSources :
       (\A i \in SourceEdges(s) : ~Flagged(i)) =>
          \A k \in 1..Len(OutOf(result.graph[1], s)) :
             OutOf(result.graph[1], s)[k].isDefault <=> k = 1

C6_Witness ==
  /\ CompiledOk
  /\ \E s \in MultiSources : \A i \in SourceEdges(s) : ~Flagged(i)

\* C7: a source with several outgoing edges has at most one emitted edge with
\* isDefault:true; when several of its input edges are flagged, the first of
\* them in stable-key order is the one that stays flagged, and a warning
\* naming the source is emitted.
C7_AtMostOneDefault ==
  CompiledOk =>
    \A s \in MultiSources :
       LET out == OutOf(result.graph[1], s)
           flagged == {i \in SourceEdges(s) : Flagged(i)}
       IN /\ Cardinality({k \in 1..Len(out) : out[k].isDefault}) <= 1
          /\ Cardinality(flagged) > 1 =>
               /\ \A i \in flagged :
                     Emitted(result.graph[1], i).isDefault
                       <=> \A j \in flagged \ {i} : Before(i, j)
               /\ \A i \in SourceEdges(s) \ flagged : ~Emitted(result.graph[1], i).isDefault
               /\ \E w \in 1..Len(result.warnings) :
                     /\ result.warnings[w].kind = "multiple-default-edges"
                     /\ result.warnings[w].text = s

C7_Witness ==
  /\ CompiledOk
  /\ \E s \in MultiSources : Cardinality({i \in SourceEdges(s) : Flagged(i)}) > 1
  /\ HasMsg(result.warnings, "multiple-default-edges")

\* C8: a compiled graph lists each input node id once, in ascending id order,
\* with file steps/<id>.md; its edges are the input edges, grouped by source
\* in ascending source order and, inside a group, in ascending stable-key
\* order; every edge joins emitted nodes.
C8_CanonicalOrder ==
  CompiledOk =>
    LET g == result.graph[1]
    IN /\ GraphIds(g) = InputIds
       /\ Len(g.nodes) = Cardinality(InputIds)
       /\ \A k \in 1..(Len(g.nodes) - 1) : localeCompare(g.nodes[k].id, g.nodes[k + 1].id) < 0
       /\ \A k \in 1..Len(g.nodes) : g.nodes[k].file = S_steps \o g.nodes[k].id \o S_md
       /\ \A k \in 1..Len(g.edges) : g.edges[k].from \in GraphIds(g) /\ g.edges[k].to \in GraphIds(g)
       /\ Len(g.edges) = Len(call.edges)
       /\ \E p \in [1..Len(g.edges) -> 1..Len(call.edges)] :
             /\ \A k, m \in 1..Len(g.edges) : k # m => p[k] # p[m]
             /\ \A k \in 1..Len(g.edges) :
                   /\ g.edges[k].from = call.edges[p[k]].source
                   /\ g.edges[k].to = call.edges[p[k]].target
                   /\ g.edges[k].id = trim(call.edges[p[k]].id)
             /\ \A k \in 1..(Len(g.edges) - 1) :
                   \/ localeCompare(g.edges[k].from, g.edges[k + 1].from) < 0
                   \/ /\ g.edges[k].from = g.edges[k + 1].from
                      /\ localeCompare(KeyOf(p[k]), KeyOf(p[k + 1])) <= 0

C8_Witness ==
  /\ CompiledOk
  /\ Len(call.nodes) = 3
  /\ Len(result.graph[1].nodes) = 3
  /\ call.nodes[1].id # result.graph[1].nodes[1].id
  /\ Len(call.edges) = 2
  /\ call.edges[1].source = call.edges[2].source
  /\ localeCompare(KeyOf(1), KeyOf(2)) > 0

Injections(n) == {p \in [1..n -> 1..n] : \A k, m \in 1..n : k # m => p[k] # p[m]}
Permuted(s, p) == [k \in 1..Len(s) |-> s[p[k]]]

SameGraphInAnyOrder ==
  \A pn \in Injections(Len(call.nodes)), pe \in Injections(Len(call.edges)) :
     buildWorkflowGraphV11(Permuted(call.nodes, pn), Permuted(call.edges, pe)).graph = result.graph

\* C9 as stated: two inputs holding the same nodes and the same edges in
\* different array orders compile to identical graphs.
C9_Original_OrderIndependent == Compiled => SameGraphInAnyOrder

DistinctNodeIds == \A k, m \in 1..Len(call.nodes) : k # m => call.nodes[k].id # call.nodes[m].id
DistinctEdgeIds ==
  /\ \A k \in 1..Len(call.edges) : trim(call.edges[k].id) # <<>>
  /\ \A k, m \in 1..Len(call.edges) :
        k # m => localeCompare(trim(call.edges[k].id), trim(call.edges[m].id)) # 0

\* C9 amended: when the node ids are pairwise distinct and every edge has a
\* non-empty id, no two edge ids comparing equal, two inputs holding the same
\* nodes and edges in different array orders compile to identical graphs.
C9_OrderIndependentWithIds ==
  (Compiled /\ DistinctNodeIds /\ DistinctEdgeIds) => SameGraphInAnyOrder

C9_Witness ==
  /\ CompiledOk
  /\ DistinctNodeIds /\ DistinctEdgeIds
  /\ Len(call.edges) = 2
  /\ localeCompare(KeyOf(1), KeyOf(2)) > 0
  /\ \E i \in 1..2 : Blank(i)

Assembled == pc = "done" /\ call.fn = "assemble"
AssembledOk == Assembled /\ result.filesByPath # None

\* the ids listed in agents.json, as the claims read them
ListedAgentIds ==
  {call.agentsJson.items[i].id : i \in 1..Len(call.agentsJson.items)} \ {<<>>}

WorkflowDir(wf) == S_workflows \o NumberToString(wf.id)

\* the step files a workflow supplies: normalised keys of the entries that
\* hold non-blank text
SuppliedSteps(wf) ==
  {normalizeZipPath(wf.stepFilesJson.entries[i].key) :
     i \in {j \in 1..Len(wf.stepFilesJson.entries) :
              /\ wf.stepFilesJson.entries[j].isString
              /\ trim(wf.stepFilesJson.entries[j].content) # <<>>}}

\* the assembler gets as far as checking the compiled nodes of workflow wf
ReachesNodeChecks(wf) ==
  /\ call.bmadJson.kind = "object" /\ call.agentsJson.kind = "object"
  /\ extractEntryPaths(call.bmadJson).value # None
  /\ WORKFLOW_ID_PATTERN(NumberToString(wf.id))
  /\ trim(wf.workflowMd) # <<>>
  /\ wf.stepFilesJson.kind = "object" /\ wf.graphJson.kind = "object"
  /\ wf.graphJson.nodes # <<>>
  /\ buildWorkflowGraphV11(wf.graphJson.nodes, wf.graphJson.edges).graph # None

HasError(kind, text, n) ==
  \E i \in 1..Len(result.errors) :
     /\ result.errors[i].kind = kind
     /\ result.errors[i].text = text
     /\ result.errors[i].n = n

EntryNamed == <<call.bmadJson.entry.workflow, call.bmadJson.entry.graph, call.bmadJson.entry.agents>>
EntryRead == [i \in 1..3 |-> normalizeZipPath(trim(EntryNamed[i]))]

\* the state of the assembly when the loop over the workflows is over
LoopDone ==
  ProcessWorkflows(WithAssets(StartFiles(call.bmadJson, call.agentsJson), call.assets),
                   call.workflows, AgentIds(call.agentsJson))

\* every check but the one of the entry paths passes
OtherChecksPass ==
  /\ call.bmadJson.kind = "object" /\ call.agentsJson.kind = "object"
  /\ extractEntryPaths(call.bmadJson).value # None
  /\ call.workflows # <<>>
  /\ LoopDone.errors = <<>>

\* C11 as stated: the paths written in bmad.json's entry are themselves keys
\* of every assembled bundle, and a missing one fails the assembly.
C11_Original_EntryPathsAreKeys ==
  Assembled =>
    /\ result.filesByPath # None =>
          \A i \in 1..3 : EntryNamed[i] \in DOMAIN result.filesByPath[1]
    /\ OtherChecksPass =>
          \A i \in 1..3 :
             EntryNamed[i] \notin DOMAIN LoopDone.files =>
               result.filesByPath = None /\ HasError("entry-file-missing", EntryNamed[i], 0)

\* C11: the three entry paths of bmad.json, normalised as the assembler reads
\* them, are keys of every assembled bundle; when every other check passes
\* and one of them is absent from the assembled files, the assembly fails
\* with an error naming the normalised missing path.
C11_EntryPathsPresent ==
  Assembled =>
    /\ result.filesByPath # None =>
          \A i \in 1..3 : EntryRead[i] \in DOMAIN result.filesByPath[1]
    /\ OtherChecksPass =>
          \A i \in 1..3 :
             EntryRead[i] \notin DOMAIN LoopDone.files =>
               result.filesByPath = None /\ HasError("entry-file-missing", EntryRead[i], 0)

C11_Witness ==
  /\ AssembledOk
  /\ EntryNamed[3] # EntryRead[3]
  /\ \A i \in 1..3 : EntryRead[i] \in DOMAIN result.filesByPath[1]

\* the assembler gets as far as the assets: both manifests parse, the entry
\* paths are there and the workflow list is not empty
ReachesAssets ==
  /\ call.bmadJson.kind = "object" /\ call.agentsJson.kind = "object"
  /\ extractEntryPaths(call.bmadJson).value # None
  /\ call.workflows # <<>>

SuppliedAssets == IF call.assets = None THEN <<>> ELSE call.assets[1]

\* a path that is safe inside an archive, as the claims read it
SafePath(path) ==
  /\ path # <<>>
  /\ Head(path) # "/"
  /\ \A part \in Range(SplitSlash(path, <<>>)) : part \notin {<<>>, <<".">>, <<".", ".">>}

\* the same call without the i-th asset
WithoutAsset(i) ==
  buildBmadExportFilesV11(
    call.bmadJson, call.agentsJson, call.workflows,
    Some([k \in 1..(Len(SuppliedAssets) - 1) |->
            IF k < i THEN SuppliedAssets[k] ELSE SuppliedAssets[k + 1]]))

HasWarning(kind, text, n) ==
  \E i \in 1..Len(result.warnings) :
     /\ result.warnings[i].kind = kind
     /\ result.warnings[i].text = text
     /\ result.warnings[i].n = n

\* what C12 says of the assets whose path satisfies Outside
SkippedWithWarning(Outside(_)) ==
  (Assembled /\ ReachesAssets) =>
    \A i \in 1..Len(SuppliedAssets) :
       LET path == normalizeZipPath(SuppliedAssets[i].path)
       IN /\ Outside(SuppliedAssets[i].path) =>
               /\ HasWarning("asset-skipped", path, 0)
               /\ result.filesByPath = WithoutAsset(i).filesByPath
               /\ result.errors = WithoutAsset(i).errors
          /\ (result.filesByPath # None /\ StartsWith(path, S_assets) /\ SafePath(path)) =>
               /\ path \in DOMAIN result.filesByPath[1]
               /\ result.filesByPath[1][path] = SuppliedAssets[i].value

OutsideAsWritten(path) == ~StartsWith(path, S_assets)
OutsideAsRead(path) == ~StartsWith(normalizeZipPath(path), S_assets)

\* C12 as stated: an asset whose path, as written, does not start with
\* assets/ is skipped with a warning and changes nothing else.
C12_Original_SkippedAsWritten == SkippedWithWarning(OutsideAsWritten)

\* C12: once the assembler reaches the assets, an asset whose normalised
\* path does not start with assets/ is warned about, and the files and the
\* errors are those of the same call without it (it is not in the bundle,
\* adds no error, does not make the assembly fail); an asset with a safe
\* normalised path under assets/ is a key of every assembled bundle.
C12_SkippedWithWarning == SkippedWithWarning(OutsideAsRead)

C12_Witness ==
  /\ AssembledOk
  /\ \E i, j \in 1..Len(SuppliedAssets) :
        /\ OutsideAsRead(SuppliedAssets[i].path)
        /\ HasWarning("asset-skipped", normalizeZipPath(SuppliedAssets[i].path), 0)
        /\ normalizeZipPath(SuppliedAssets[i].path) \notin DOMAIN result.filesByPath[1]
        /\ normalizeZipPath(SuppliedAssets[j].path) \in DOMAIN result.filesByPath[1]

\* the path has a .. segment, an empty segment or a leading /
Escapes(path) ==
  \/ path # <<>> /\ Head(path) = "/"
  \/ \E part \in Range(SplitSlash(path, <<>>)) : part \in {<<>>, <<".", ".">>}

\* what C13 says of the assets whose normalised path satisfies Concerned
UnsafeAssetIsFatal(Concerned(_)) ==
  (Assembled /\ ReachesAssets) =>
    \A i \in 1..Len(SuppliedAssets) :
       LET path == normalizeZipPath(SuppliedAssets[i].path)
       IN (Concerned(path) /\ Escapes(path)) =>
            result.filesByPath = None /\ HasError("asset-path-unsafe", path, 0)

AnyPath(path) == TRUE
UnderAssets(path) == StartsWith(path, S_assets)

\* C13 as stated: every asset path with a .. segment, an empty segment or a
\* leading / is a fatal unsafe-path error.
C13_Original_AnyUnsafeAssetIsFatal == UnsafeAssetIsFatal(AnyPath)

\* C13: once the assembler reaches the assets, an asset path that starts
\* with assets/ and has a .. segment or an empty segment is a fatal
\* unsafe-path error: filesByPath is null.
C13_UnsafeAssetUnderAssetsIsFatal == UnsafeAssetIsFatal(UnderAssets)

C13_Witness ==
  /\ Assembled /\ ReachesAssets
  /\ result.filesByPath = None
  /\ \E i \in 1..Len(SuppliedAssets) :
        /\ UnderAssets(normalizeZipPath(SuppliedAssets[i].path))
        /\ <<".", ".">> \in Range(SplitSlash(normalizeZipPath(SuppliedAssets[i].path), <<>>))
        /\ HasError("asset-path-unsafe", normalizeZipPath(SuppliedAssets[i].path), 0)

\* the fixed layout of a bundle, read off the segments of a key
LayoutForm(key) ==
  LET parts == SplitSlash(key, <<>>)
  IN \/ key = S_bmad_json
     \/ key = S_agents_json
     \/ Len(parts) >= 2 /\ parts[1] = <<"a", "s", "s", "e", "t", "s">>
     \/ /\ Len(parts) >= 3
        /\ parts[1] = <<"w", "o", "r", "k", "f", "l", "o", "w", "s">>
        /\ IdPattern(parts[2])
        /\ \/ Len(parts) = 3 /\ parts[3] = <<"w", "o", "r", "k", "f", "l", "o", "w", ".", "m", "d">>
           \/ Len(parts) = 3 /\ parts[3] = Tail(S_graph_json)
           \/ Len(parts) >= 4 /\ parts[3] = <<"s", "t", "e", "p", "s">>

\* C14: every key of an assembled bundle is a safe archive-relative path
\* (non-empty, no leading /, no empty, . or .. segment) of one of the layout
\* forms bmad.json, agents.json, assets/..., workflows/<id>/workflow.md,
\* workflows/<id>/workflow.graph.json, workflows/<id>/steps/..., the id
\* matching the id pattern.
C14_KeysSafeAndInLayout ==
  AssembledOk =>
    \A key \in DOMAIN result.filesByPath[1] : SafePath(key) /\ LayoutForm(key)

C14_Witness ==
  /\ AssembledOk
  /\ \E key \in DOMAIN result.filesByPath[1] : StartsWith(key, S_assets)
  /\ \E key \in DOMAIN result.filesByPath[1] :
        Len(SplitSlash(key, <<>>)) = 4 /\ SplitSlash(key, <<>>)[3] = <<"s", "t", "e", "p", "s">>
  /\ \E i \in 1..Len(SuppliedAssets) : OutsideAsRead(SuppliedAssets[i].path)

\* the assembler gets as far as compiling the graph of workflow wf
ReachesCompile(wf) ==
  /\ ReachesAssets
  /\ WORKFLOW_ID_PATTERN(NumberToString(wf.id))
  /\ trim(wf.workflowMd) # <<>>
  /\ wf.stepFilesJson.kind = "object" /\ wf.graphJson.kind = "object"
  /\ wf.graphJson.nodes # <<>>

Compiles(wf) == buildWorkflowGraphV11(wf.graphJson.nodes, wf.graphJson.edges).graph # None

\* the referential violations of the input, read off the input alone:
\* <<"edge", w, i>> edge i of workflow w has an endpoint that is no node,
\* <<"agent", w, k>> node k of workflow w names an agent that is not listed,
\* <<"step", w, k>> node k of workflow w has no step file,
\* <<"entry", 0, i>> the i-th entry path is no file of the bundle
Violations ==
  IF ~ReachesAssets THEN {}
  ELSE
    LET W == {w \in 1..Len(call.workflows) : ReachesCompile(call.workflows[w])}
        Nodes(w) == call.workflows[w].graphJson.nodes
        Edges(w) == call.workflows[w].graphJson.edges
        Ids(w) == {Nodes(w)[k].id : k \in 1..Len(Nodes(w))}
        Last(w) == {k \in 1..Len(Nodes(w)) :
                      /\ Nodes(w)[k].id # <<>>
                      /\ \A m \in (k + 1)..Len(Nodes(w)) : Nodes(w)[m].id # Nodes(w)[k].id}
        DanglingEdges(w) ==
          {i \in 1..Len(Edges(w)) :
             /\ Edges(w)[i].source # <<>> /\ Edges(w)[i].target # <<>>
             /\ Edges(w)[i].source \notin Ids(w) \/ Edges(w)[i].target \notin Ids(w)}
        UnknownAgents(w) ==
          {k \in Last(w) :
             /\ trim(Nodes(w)[k].agentId) # <<>>
             /\ trim(Nodes(w)[k].agentId) \notin ListedAgentIds}
        WithoutStep(w) ==
          {k \in Last(w) :
             S_steps \o Nodes(w)[k].id \o S_md \notin SuppliedSteps(call.workflows[w])}
        written == DOMAIN LoopDone.files
    IN UNION {{<<"edge", w, i>> : i \in DanglingEdges(w)} : w \in W}
       \cup UNION {{<<"agent", w, k>> : k \in UnknownAgents(w)} : w \in W}
       \cup UNION {{<<"step", w, k>> : k \in WithoutStep(w)} : w \in W}
       \cup {<<"entry", 0, i>> : i \in {j \in 1..3 : EntryRead[j] \notin written}}

\* the errors list reports the violation
Reported(v) ==
  LET wf == call.workflows[v[2]]
      node == wf.graphJson.nodes[v[3]]
  IN CASE v[1] = "edge" ->
            \E i \in 1..Len(result.errors) :
               /\ result.errors[i].kind = "compile-failed" /\ result.errors[i].n = wf.id
               /\ \E m \in 1..Len(result.errors[i].text) :
                     /\ result.errors[i].text[m].kind \in {"edge-source-missing", "edge-target-missing"}
                     /\ result.errors[i].text[m].n = v[3] - 1
       [] v[1] = "agent" -> HasError("unknown-agent", <<trim(node.agentId), node.id>>, wf.id)
       [] v[1] = "step" ->
            HasError("step-file-missing", <<S_steps \o node.id \o S_md, node.id>>, wf.id)
       [] v[1] = "entry" -> HasError("entry-file-missing", EntryRead[v[3]], 0)

\* the stage that looks for the violation is run
Checked(v) ==
  CASE v[1] = "edge" -> TRUE
    [] v[1] \in {"agent", "step"} -> Compiles(call.workflows[v[2]])
    [] v[1] = "entry" -> LoopDone.errors = <<>>

\* C15 as stated: when the input holds several referential violations, the
\* errors of one call report every one of them.
C15_Original_AllViolationsReported ==
  (Assembled /\ Cardinality(Violations) >= 2) => \A v \in Violations : Reported(v)

\* C15: the violations of one stage are aggregated over all workflows: every
\* dangling edge of a workflow that reaches compile, every unknown agent and
\* missing step file of a workflow that compiles, and every absent entry
\* path when nothing else failed, is reported by the one call.
C15_ViolationsOfAStageReported ==
  Assembled => \A v \in Violations : Checked(v) => Reported(v)

C15_Witness ==
  /\ Assembled
  /\ \E v1, v2 \in Violations :
        /\ v1[1] = "edge" /\ v2[1] = "agent" /\ v1[2] # v2[2]
        /\ Reported(v1) /\ Reported(v2)
  /\ \E v \in Violations : ~Checked(v) /\ ~Reported(v)

ManifestBuilt == pc = "done" /\ call.fn = "manifest" /\ result.manifest # None

\* the workflows handed to the manifest builder, and the flagged ones
ListedWorkflows == {call.workflows[i] : i \in {j \in 1..Len(call.workflows) : call.workflows[j].present}}
FlaggedWorkflows == {w \in ListedWorkflows : w.isDefault}

LowestId(ws) == CHOOSE id \in {w.id : w \in ws} : \A w \in ws : id <= w.id

ExpectedEntryId ==
  IF FlaggedWorkflows # {} THEN LowestId(FlaggedWorkflows) ELSE LowestId(ListedWorkflows)

\* C16: the entry workflow is the flagged one when exactly one is flagged
\* (no entry warning), the lowest-id flagged one with a warning when several
\* are, the lowest-id one overall with a warning when none is; entry.workflow
\* and entry.graph are workflows/<entryId>/workflow.md and
\* workflows/<entryId>/workflow.graph.json, and the index entry of that id
\* carries the same two paths.
C16_EntrySelection ==
  ManifestBuilt =>
    LET m == result.manifest[1]
        id == NumberToString(ExpectedEntryId)
    IN /\ m.entry.workflow = S_workflows \o id \o S_workflow_md
       /\ m.entry.graph = S_workflows \o id \o S_graph_json
       /\ HasMsg(result.warnings, "multiple-default-workflows") <=> Cardinality(FlaggedWorkflows) > 1
       /\ HasMsg(result.warnings, "no-default-workflow") <=> FlaggedWorkflows = {}
       /\ \E i \in 1..Len(m.workflows) :
             /\ m.workflows[i].id = id
             /\ m.workflows[i].workflow = m.entry.workflow
             /\ m.workflows[i].graph = m.entry.graph

C16_Witness ==
  /\ ManifestBuilt
  /\ Cardinality(FlaggedWorkflows) > 1
  /\ call.workflows[1].present /\ call.workflows[1].id # ExpectedEntryId
  /\ HasMsg(result.warnings, "multiple-default-workflows")

\* the strict builder has run on a v1.1 manifest object
StrictV11Done == pc = "done" /\ call.fn = "agents" /\ call.raw.kind = "object"

\* the id of the i-th record as the builder reads it
RecordId(i) == trim(call.raw.items[i].id)

\* C17: in the strict builder, a v1.1 record whose id is missing or empty,
\* breaks the id pattern, or was used by an earlier record makes the build
\* fail with an error for that record; a returned manifest holds every
\* record of the input, in order.
C17_StrictIdViolationsAreFatal ==
  StrictV11Done =>
    /\ \A i \in 1..Len(call.raw.items) :
          call.raw.items[i].isObject =>
            /\ RecordId(i) = <<>> =>
                 result.manifest = None /\ HasError("agent-id-empty", <<>>, i - 1)
            /\ (RecordId(i) # <<>> /\ ~IdPattern(RecordId(i))) =>
                 result.manifest = None /\ HasError("agent-id-invalid", RecordId(i), i - 1)
            /\ (IdPattern(RecordId(i)) /\ \E j \in 1..(i - 1) : RecordId(j) = RecordId(i)) =>
                 result.manifest = None /\ HasError("agent-id-duplicate", RecordId(i), 0)
    /\ result.manifest # None =>
          /\ Len(result.manifest[1].agents) = Len(call.raw.items)
          /\ \A i \in 1..Len(call.raw.items) : result.manifest[1].agents[i].id = RecordId(i)

C17_Witness ==
  /\ StrictV11Done
  /\ result.manifest = None
  /\ \E i \in 1..Len(call.raw.items) :
        /\ \E j \in 1..(i - 1) : RecordId(j) = RecordId(i) /\ call.raw.items[j].id # call.raw.items[i].id
        /\ HasError("agent-id-duplicate", RecordId(i), 0)

\* a call that produced an agent list: a strict build that returned a
\* manifest, or the lenient parser
StrictBuilt == pc = "done" /\ call.fn = "agents" /\ result.manifest # None
LenientParsed == pc = "done" /\ call.fn = "parse"
ProducedAgents == IF call.fn = "agents" THEN result.manifest[1].agents ELSE result.agents

\* the legacy records each parser keeps, in order
KeptByStrict(item) == item.isObject /\ trim(item.name) # <<>>
KeptByLenient(item) == item.isObject /\ item.name # <<>>
KeptLegacy ==
  IF call.fn = "agents" THEN SelectSeq(call.raw.items, KeptByStrict)
  ELSE SelectSeq(call.raw.items, KeptByLenient)

DistinctIds(agents) ==
  \A i, j \in 1..Len(agents) : i # j => agents[i].id # agents[j].id

\* C18: every agent list produced by a successful strict build (from a
\* legacy array or from a v1.1 object) or by the lenient parser has pairwise
\* distinct ids that match the id pattern; the id of a legacy record is the
\* slug of its name, with a suffix where the slug was taken, so that records
\* of one name get distinct ids.
C18_Original_DistinctPatternIds ==
  (StrictBuilt \/ LenientParsed) =>
    /\ DistinctIds(ProducedAgents)
    /\ \A i \in 1..Len(ProducedAgents) : IdPattern(ProducedAgents[i].id)
    /\ call.raw.kind = "array" =>
          /\ Len(ProducedAgents) = Len(KeptLegacy)
          /\ \A i \in 1..Len(ProducedAgents) :
                StartsWith(ProducedAgents[i].id, slugifyAgentId(KeptLegacy[i].name))

\* the validator has returned
Validated == pc = "done" /\ call.fn = "validate"

\* a manifest the validator cannot read as a JSON object
Unreadable(path) ==
  \/ path \notin DOMAIN call.filesByPath
  \/ ~call.read[path].isString
  \/ call.read[path].blank
  \/ call.read[path].json # "object"

\* C19: the validator returns ok exactly when its issue list holds no issue
\* of severity error; a file set whose bmad.json or agents.json is missing,
\* not text, empty, unparsable or no JSON object is never ok.
C19_OkIffNoErrorIssue ==
  Validated =>
    /\ result.ok <=> ~\E i \in 1..Len(result.issues) : result.issues[i].severity = "error"
    /\ \A path \in {S_bmad_json, S_agents_json} :
          Unreadable(path) =>
            /\ ~result.ok
            /\ \E i \in 1..Len(result.issues) :
                  result.issues[i].filePath = path /\ result.issues[i].severity = "error"

C19_Witness ==
  /\ Validated
  /\ ~Unreadable(S_bmad_json)
  /\ S_agents_json \in DOMAIN call.filesByPath
  /\ call.read[S_agents_json].json = "nonobject"
  /\ Len(result.issues) = 1
  /\ ~result.ok

\* an archive has been generated, by either export path
ZipProduced == call.fn \in {"export", "zip"} /\ pc = "done" /\ result.zipBytes # None

\* the validator was run on the file set and returned ok
ValidatedOk(files) ==
  /\ call.fn = "export"
  /\ result.validation # None
  /\ result.validation[1].filesByPath = files
  /\ result.validation[1].ok

\* C20 as stated: whenever zip bytes were generated for an export, the
\* validator had been run on exactly the archived file set and had returned
\* ok.
C20_Original_ValidatedBeforeZip == ZipProduced => ValidatedOk(result.zipBytes[1])

\* C20: in the export handler of the project page the archive writer is
\* called, and zip bytes exist, only after the validator was run on exactly
\* the assembled file set and returned ok; a file set the validator rejects
\* is never archived there.  buildBmadZipBundleV11 archives the file set the
\* assembler returned.
C20_HandlerValidatesBeforeZip ==
  /\ (call.fn = "export" /\ (pc = "zipping" \/ ZipProduced)) =>
        /\ ValidatedOk(result.filesByPath[1])
        /\ ZipProduced => result.zipBytes[1] = result.filesByPath[1]
  /\ (call.fn = "export" /\ pc = "done" /\ result.validation # None
         /\ ~result.validation[1].ok) =>
        result.zipBytes = None /\ ~result.downloaded /\ result.issues # <<>>
  /\ (call.fn = "zip" /\ ZipProduced) => result.zipBytes[1] = result.filesByPath[1]

C20_Witness ==
  /\ ZipProduced
  /\ call.fn = "export"
  /\ result.downloaded
  /\ S_assets \o S_x \in DOMAIN result.zipBytes[1]

\* the workflow ids the claim derives from bmad.json: the ids listed under
\* workflows when there are any, otherwise the directory entry.workflow names
ListedIds == {trim(w) : w \in Range(call.read[S_bmad_json].workflows)} \ {<<>>}
EntryDir ==
  LET named == trim(call.read[S_bmad_json].entryWorkflow)
      dir == SubSeq(named, Len(S_workflows) + 1, Len(named) - Len(S_workflow_md))
  IN IF /\ StartsWith(named, S_workflows)
        /\ EndsWith(named, S_workflow_md)
        /\ dir # <<>>
        /\ \A i \in 1..Len(dir) : dir[i] # "/"
       THEN {dir}
     ELSE {}
DerivedIds ==
  IF Unreadable(S_bmad_json) THEN {}
  ELSE IF ListedIds # {} THEN ListedIds
  ELSE EntryDir

\* workflows/<id>/steps/*.md of the file set
StepFilesOf(id) ==
  LET dir == S_workflows \o id \o <<"/">> \o S_steps
  IN {path \in DOMAIN call.filesByPath :
        /\ StartsWith(path, dir)
        /\ EndsWith(path, S_dot_md)
        /\ Len(path) > Len(dir) + Len(S_dot_md)
        /\ \A i \in (Len(dir) + 1)..Len(path) : path[i] # "/"}

\* the defects the claim lists, of a JSON document and of a markdown file
NoFence(lines) ==
  \/ AllBlank(lines)
  \/ lines[FirstInk(lines)] \notin {"fence", "indented-fence"}
WhitespaceBeforeFence(lines) ==
  /\ ~NoFence(lines)
  /\ FirstInk(lines) > 1 \/ lines[1] = "indented-fence"
Unclosed(lines) ==
  /\ lines # <<>>
  /\ lines[1] = "fence"
  /\ \A j \in 2..Len(lines) : lines[j] # "fence"
DefectiveJson(path) == Unreadable(path) \/ call.read[path].ajvErrors # <<>>
DefectiveMarkdown(path) ==
  \/ path \notin DOMAIN call.filesByPath
  \/ ~call.read[path].isString
  \/ NoFence(call.read[path].lines)
  \/ WhitespaceBeforeFence(call.read[path].lines)
  \/ Unclosed(call.read[path].lines)
  \/ call.read[path].ajvErrors # <<>>
ErrorReportedOn(path) ==
  /\ ~result.ok
  /\ \E i \in 1..Len(result.issues) :
        result.issues[i].filePath = path /\ result.issues[i].severity = "error"

\* C21: for every workflow id derived from bmad.json, a defect of
\* workflows/<id>/workflow.graph.json, of workflows/<id>/workflow.md or of a
\* workflows/<id>/steps/*.md file of the bundle (missing, empty, unparsable,
\* no frontmatter, unclosed frontmatter, whitespace before the opening fence,
\* schema violation) is reported as an error issue on that file and ok is
\* false.
C21_Original_WorkflowFilesChecked ==
  Validated =>
    \A id \in DerivedIds :
      /\ DefectiveJson(S_workflows \o id \o S_graph_json)
           => ErrorReportedOn(S_workflows \o id \o S_graph_json)
      /\ DefectiveMarkdown(S_workflows \o id \o S_workflow_md)
           => ErrorReportedOn(S_workflows \o id \o S_workflow_md)
      /\ \A path \in StepFilesOf(id) : DefectiveMarkdown(path) => ErrorReportedOn(path)

\* the same for the ids that carry no surrounding whitespace
C21_TrimmedIdsChecked ==
  Validated =>
    \A id \in {d \in DerivedIds : trim(d) = d} :
      /\ DefectiveJson(S_workflows \o id \o S_graph_json)
           => ErrorReportedOn(S_workflows \o id \o S_graph_json)
      /\ DefectiveMarkdown(S_workflows \o id \o S_workflow_md)
           => ErrorReportedOn(S_workflows \o id \o S_workflow_md)
      /\ \A path \in StepFilesOf(id) : DefectiveMarkdown(path) => ErrorReportedOn(path)

C21_TrimmedWitness ==
  /\ Validated
  /\ \E id \in {d \in DerivedIds : trim(d) = d} :
       \E path \in StepFilesOf(id) :
          /\ Unclosed(call.read[path].lines)
          /\ ~DefectiveJson(S_workflows \o id \o S_graph_json)
          /\ ~DefectiveMarkdown(S_workflows \o id \o S_workflow_md)
          /\ ErrorReportedOn(path)

\* the PUT of deleteAgent has been sent
DeleteSent == call.fn = "delete" /\ pc \in {"putting", "done"} /\ result.sent # None

\* the stored graph of a workflow holds a node bound to the agent
ReferencedBy(wf, agentId) ==
  /\ wf.graph = "array"
  /\ \E i \in 1..Len(wf.nodes) : wf.nodes[i].hasData /\ wf.nodes[i].agentId = agentId

\* C22: whatever the outcome of the workflow-detail fetches, the request that
\* stores the manifest without the agent is sent only if no workflow of the
\* project holds a node whose agentId is that agent.
C22_Original_NeverDeletedWhileReferenced ==
  DeleteSent =>
    /\ call.agentId \notin Range(result.sent[1])
    /\ \A i \in 1..Len(call.workflows) : ~ReferencedBy(call.workflows[i], call.agentId)

\* the same when every detail fetch succeeds
C22_BlockedWhenFetched ==
  (DeleteSent /\ \A i \in 1..Len(call.workflows) : call.workflows[i].fetch = "ok") =>
    /\ call.agentId \notin Range(result.sent[1])
    /\ \A i \in 1..Len(call.workflows) : ~ReferencedBy(call.workflows[i], call.agentId)

C22_FetchedWitness ==
  /\ DeleteSent
  /\ pc = "done"
  /\ Len(call.workflows) = MaxStored
  /\ \A i \in 1..Len(call.workflows) : call.workflows[i].fetch = "ok"
  /\ result.data = Some(<<S_qa>>)

\* the records of an agents input that can become an agent
UsableLegacy(item) == item.isObject /\ trim(item.name) # <<>>
UsableV11(item) == item.isObject /\ isValidAgentId(trim(item.id))
YieldsNoAgent(raw) ==
  \/ raw.kind = "array" /\ \A i \in 1..Len(raw.items) : ~UsableLegacy(raw.items[i])
  \/ raw.kind = "object" /\ \A i \in 1..Len(raw.items) : ~UsableV11(raw.items[i])

\* the call was given an empty collection
EmptyInput ==
  \/ call.fn = "compile" /\ call.nodes = <<>>
  \/ call.fn = "agents" /\ (call.raw.kind = "blank" \/ YieldsNoAgent(call.raw))
  \/ call.fn = "manifest" /\ call.workflows = <<>>
  \/ call.fn = "assemble" /\ call.workflows = <<>>

\* C23: compile with an empty node list, the agent manifest build with empty
\* text or with an input that yields no agent, the package manifest build
\* with no workflows and the assembly with no workflows all return a null
\* result and at least one error.
C23_EmptyInputRejected ==
  (pc = "done" /\ EmptyInput) => (Returned = None /\ result.errors # <<>>)

C23_Witness ==
  /\ pc = "done"
  /\ call.fn = "agents"
  /\ call.raw.kind = "array"
  /\ call.raw.items = <<>>
  /\ call.raw.ajvErrors = <<>>
  /\ result.manifest = None
  /\ HasMsg(result.errors, "no-agents")

\* the input edges the claim calls dangling, by 1-based position
DanglingInputEdge(i) ==
  \/ call.edges[i].source = <<>>
  \/ call.edges[i].target = <<>>
  \/ call.edges[i].source \notin InputIds
  \/ call.edges[i].target \notin InputIds
EdgeErrorKinds == {"edge-incomplete", "edge-source-missing", "edge-target-missing"}
\* the errors of the result that name the edge at 1-based position i
EdgeErrorsOn(i) ==
  {k \in 1..Len(result.errors) :
     result.errors[k].kind \in EdgeErrorKinds /\ result.errors[k].n = i - 1}
\* one error per dangling edge, none for the others, next to the
\* invalid-node-id error and the cycle error
EdgeErrorsCollected ==
  /\ \A i \in 1..Len(call.edges) :
        Cardinality(EdgeErrorsOn(i)) = IF DanglingInputEdge(i) THEN 1 ELSE 0
  /\ (\E id \in InputIds : ~NODE_ID_PATTERN(id)) => HasMsg(result.errors, "invalid-node-ids")
  /\ InputHasCycle => HasMsg(result.errors, "cycle")

\* C24 as stated: compile reports exactly one error for each input edge that
\* lacks a source or target or names a node that does not exist, together
\* with the invalid-node-id error and the cycle error.
C24_Original_EdgeErrorsCollected == Compiled => EdgeErrorsCollected

\* C24 as amended: the same for every call with a non-empty node list.
C24_EdgeErrorsCollectedWithNodes == (Compiled /\ call.nodes # <<>>) => EdgeErrorsCollected

C24_Witness ==
  /\ Compiled
  /\ call.nodes # <<>>
  /\ \E i \in 1..Len(call.edges) : DanglingInputEdge(i) /\ Cardinality(EdgeErrorsOn(i)) = 1
  /\ HasMsg(result.errors, "invalid-node-ids")
  /\ HasMsg(result.errors, "cycle")
  /\ Len(result.errors) >= 3

\* the input nodes discarded because a later node has the same id
Overwritten ==
  {i \in 1..Len(call.nodes) :
     /\ call.nodes[i].id # <<>>
     /\ \E j \in (i + 1)..Len(call.nodes) : call.nodes[j].id = call.nodes[i].id}
\* the last input node of an id
LastOf(id) ==
  call.nodes[CHOOSE i \in 1..Len(call.nodes) :
               call.nodes[i].id = id /\ i \notin Overwritten]
DuplicateWarnings ==
  {k \in 1..Len(result.warnings) : result.warnings[k].kind = "duplicate-node-ids"}
DuplicatesHandled ==
  /\ Overwritten # {} =>
        /\ Cardinality(DuplicateWarnings) = 1
        /\ \A k \in DuplicateWarnings : result.warnings[k].n = Cardinality(Overwritten)
        /\ ~HasMsg(result.errors, "duplicate-node-ids")
  /\ Overwritten = {} => DuplicateWarnings = {}
  /\ result.graph # None =>
        \A k \in 1..Len(result.graph[1].nodes) :
           result.graph[1].nodes[k].agentId = trim(LastOf(result.graph[1].nodes[k].id).agentId)

\* C25: of several input nodes with one id compile keeps the data of the
\* last, warns and does not fail for it; the count in the warning is the
\* number of nodes discarded because a later node has the same id, and there
\* is no such warning when the input node ids are distinct.
C25_Original_DuplicateCount == (Compiled /\ call.nodes # <<>>) => DuplicatesHandled

\* the same for node lists in which every node has an id
C25_DuplicateCountWithIds ==
  (Compiled /\ \A i \in 1..Len(call.nodes) : call.nodes[i].id # <<>>) => DuplicatesHandled

C25_WithIdsWitness ==
  /\ CompiledOk
  /\ \A i \in 1..Len(call.nodes) : call.nodes[i].id # <<>>
  /\ Cardinality(Overwritten) = 1
  /\ call.nodes[1] = Node(S_a, <<>>)
  /\ \E k \in 1..Len(result.graph[1].nodes) : result.graph[1].nodes[k].agentId = S_dev

\* the assembler passes the graph of workflow wf to the compiler
HandedToCompiler(wf) ==
  /\ ReachesAssets
  /\ WORKFLOW_ID_PATTERN(trim(NumberToString(wf.id)))
  /\ trim(wf.workflowMd) # <<>>
  /\ parseStepFilesJson(wf.stepFilesJson, wf.id).value # None
  /\ parseBuilderGraphJson(wf.graphJson, wf.id).value # None
\* what the compiler returns for it
GraphBuildOf(wf) == buildWorkflowGraphV11(wf.graphJson.nodes, wf.graphJson.edges)
\* every compiler error is listed by an error that carries the workflow's label
CompileErrorsPropagated(wf) ==
  \A k \in 1..Len(GraphBuildOf(wf).errors) :
     \E i \in 1..Len(result.errors) :
        /\ result.errors[i].kind = "compile-failed"
        /\ result.errors[i].n = wf.id
        /\ \E m \in 1..Len(result.errors[i].text) :
              result.errors[i].text[m] = GraphBuildOf(wf).errors[k]
\* every compiler warning is a warning that carries the workflow's label
CompileWarningsPropagated(wf) ==
  \A k \in 1..Len(GraphBuildOf(wf).warnings) :
     HasWarning("compile-warning", GraphBuildOf(wf).warnings[k], wf.id)

\* C26 as stated: for every workflow handed to the compiler, each compiler
\* error is among the assembler's errors and each compiler warning among the
\* assembler's warnings, under the workflow's label, also when the
\* compilation failed.
C26_Original_CompilerMessagesPropagated ==
  Assembled =>
    \A w \in 1..Len(call.workflows) :
       HandedToCompiler(call.workflows[w]) =>
         /\ CompileErrorsPropagated(call.workflows[w])
         /\ CompileWarningsPropagated(call.workflows[w])

\* C26 as amended: each compiler error is listed by an assembler error under
\* the workflow's label; each compiler warning is an assembler warning under
\* the workflow's label when the compilation succeeded.
C26_MessagesPropagatedOnSuccess ==
  Assembled =>
    \A w \in 1..Len(call.workflows) :
       HandedToCompiler(call.workflows[w]) =>
         /\ CompileErrorsPropagated(call.workflows[w])
         /\ Compiles(call.workflows[w]) => CompileWarningsPropagated(call.workflows[w])

C26_Witness ==
  /\ Assembled
  /\ \E v, w \in 1..Len(call.workflows) :
        /\ HandedToCompiler(call.workflows[v]) /\ HandedToCompiler(call.workflows[w])
        /\ ~Compiles(call.workflows[v])
        /\ GraphBuildOf(call.workflows[v]).warnings # <<>>
        /\ CompileErrorsPropagated(call.workflows[v])
        /\ Compiles(call.workflows[w])
        /\ GraphBuildOf(call.workflows[w]).warnings # <<>>
        /\ CompileWarningsPropagated(call.workflows[w])

\* the validators constructed so far for a document kind
ConstructedFor(state, kind) ==
  LET own == {s \in Slots : s[2] = kind}
      RECURSIVE Sum(_)
      Sum(S) == IF S = {} THEN 0
                ELSE LET s == CHOOSE x \in S : TRUE IN state.built[s] + Sum(S \ {s})
  IN Sum(own)
\* the validator a variable holds, without its error list
HeldBy(state, slot) ==
  IF state.slots[slot] = None THEN None ELSE Some(<<slot, state.slots[slot][1].serial>>)

\* C27 as stated: for each document kind at most one validator is ever
\* constructed, a request for a kind that has a validator returns that
\* validator, and once a variable holds a validator no getter call and no
\* validate call changes what the registry holds.
C27_Original_RegistryWriteOnce ==
  [][/\ \A kind \in Kinds : ConstructedFor(result', kind) <= 1
     /\ \A slot \in Slots :
           result.slots[slot] # None => HeldBy(result', slot) = HeldBy(result, slot)
     /\ result'.ajvInstance # None => result'.ajvBuilt = 1]_vars

\* each variable on its own is written once: at most one validator is
\* compiled into it, later requests return the validator it holds, and no
\* call replaces it
C27_EachSlotWriteOnce ==
  [][/\ \A slot \in Slots : result'.built[slot] <= 1
     /\ \A slot \in Slots :
           result.slots[slot] # None =>
             /\ HeldBy(result', slot) = HeldBy(result, slot)
             /\ (call'.fn \in {"get", "validate"} /\ slot = <<"registry", call'.kind>>)
                   => result'.returned = HeldBy(result, slot)
     /\ result'.ajvBuilt <= 1]_vars

C27_BothAgentsWitness ==
  /\ call.fn = "validateAgentsManifest"
  /\ ConstructedFor(result, "agents") = 2
  /\ \A slot \in Slots : result.slots[slot] # None
  /\ result.slots[ManifestSlot][1].errors = "errors"
  /\ result.slots[<<"registry", "agents">>][1].errors = "null"

\* the tool policy of agent a of manifest b, as a reader of the manifest sees it
PolicyOf(state, b, a) ==
  [fs |-> state.heap[state.manifests[b][a].fs], mcp |-> state.heap[state.manifests[b][a].mcp]]
DefaultPolicy ==
  [fs |-> [enabled |-> TRUE], mcp |-> [enabled |-> FALSE, allowedServers |-> <<>>]]
\* the agents of the manifests returned so far
BuiltAgents(state) ==
  {<<b, a>> : b \in 1..Len(state.manifests), a \in 1..MaxBuildAgents} \cap
  UNION {{<<b, a>> : a \in 1..Len(state.manifests[b])} : b \in 1..Len(state.manifests)}
\* the step leaves the policy of every agent in Others as it was
PoliciesKept(Others) == \A x \in Others : PolicyOf(result', x[1], x[2]) = PolicyOf(result, x[1], x[2])
\* the agents of the build of this step whose record has no usable tools
BuiltWithoutTools ==
  {a \in 1..Len(call'.tools) : call'.format = "legacy" \/ call'.tools[a].kind # "object"}

\* C28 as stated: a mutation through one agent of a returned manifest
\* changes the policy of no other agent of any manifest, and a build changes
\* no earlier manifest and gives each agent without tools the default policy.
C28_Original_NoSharedToolState ==
  [][/\ call'.fn = "mutate" => PoliciesKept(BuiltAgents(result) \ {<<call'.b, call'.a>>})
     /\ call'.fn = "build" =>
          /\ PoliciesKept(BuiltAgents(result))
          /\ \A a \in BuiltWithoutTools :
                PolicyOf(result', Len(result'.manifests), a) = DefaultPolicy]_vars

\* the agents whose tools were rebuilt from a tools object
WithOwnTools(state) == {x \in BuiltAgents(state) : state.manifests[x[1]][x[2]].fs.owner # 0}

\* the agents built from a tools object share nothing: a mutation through
\* another agent and a later build leave their policy as it was
C28_OwnToolsUnshared ==
  [][/\ call'.fn = "mutate" => PoliciesKept(WithOwnTools(result) \ {<<call'.b, call'.a>>})
     /\ call'.fn = "build" => PoliciesKept(BuiltAgents(result))]_vars

C28_OwnToolsWitness ==
  /\ call.fn = "mutate"
  /\ Len(result.manifests) = 2
  /\ WithOwnTools(result) # {}
  /\ \E x \in BuiltAgents(result) \ WithOwnTools(result) : PolicyOf(result, x[1], x[2]) # DefaultPolicy
  /\ \E x \in WithOwnTools(result) :
        PolicyOf(result, x[1], x[2]).mcp = [enabled |-> TRUE, allowedServers |-> <<S_x>>]

\* the text the step files of wf give for a normalised key: the last entry wins
StepTextOf(wf, key) ==
  LET E == wf.stepFilesJson.entries
      last == CHOOSE i \in 1..Len(E) :
                 /\ normalizeZipPath(E[i].key) = key
                 /\ \A j \in (i + 1)..Len(E) : normalizeZipPath(E[j].key) # key
  IN E[last].content
\* the bundle holds the workflow.md of wf, the graph compiled from the graph
\* of wf and, under steps/, the step files of wf and no other
OwnFilesInBundle(files, wf) ==
  LET dir == WorkflowDir(wf)
      own == {dir \o <<"/">> \o key : key \in SuppliedSteps(wf)}
      graph == GraphBuildOf(wf).graph[1]
  IN /\ dir \o S_workflow_md \in DOMAIN files
     /\ files[dir \o S_workflow_md] = wf.workflowMd
     /\ dir \o S_graph_json \in DOMAIN files
     /\ files[dir \o S_graph_json].graph.edges = graph.edges
     /\ [i \in 1..Len(files[dir \o S_graph_json].graph.nodes) |->
           files[dir \o S_graph_json].graph.nodes[i].id]
        = [i \in 1..Len(graph.nodes) |-> graph.nodes[i].id]
     /\ {k \in DOMAIN files : StartsWith(k, dir \o <<"/">> \o S_steps)} = own
     /\ \A key \in SuppliedSteps(wf) : files[dir \o <<"/">> \o key] = StepTextOf(wf, key)
DistinctWorkflowIds ==
  \A v, w \in 1..Len(call.workflows) : v # w => call.workflows[v].id # call.workflows[w].id

\* C29 as stated: in a successful assembly the ids of the input workflows
\* are pairwise distinct and the bundle holds, for each input workflow, its
\* own workflow.md, its own compiled graph and exactly its own step files.
C29_Original_NoWorkflowOverwritten ==
  AssembledOk =>
    /\ DistinctWorkflowIds
    /\ \A w \in 1..Len(call.workflows) :
          OwnFilesInBundle(result.filesByPath[1], call.workflows[w])

\* when the ids of the input workflows are pairwise distinct, a successful
\* assembly holds the own files of each of them
C29_DistinctIdsKeepOwnFiles ==
  (AssembledOk /\ DistinctWorkflowIds) =>
    \A w \in 1..Len(call.workflows) :
       OwnFilesInBundle(result.filesByPath[1], call.workflows[w])

C29_DistinctIdsWitness ==
  /\ AssembledOk
  /\ DistinctWorkflowIds
  /\ Len(call.workflows) = 2
  /\ \A w \in 1..2 : SuppliedSteps(call.workflows[w]) # {}

\* the badge of the header says Saved
ShowsSaved ==
  /\ ~ExecutionError(result)
  /\ result.saveStatus \notin {"saving", "failed"}
  /\ ~dirty(result)
\* a save has just been accepted and the content was edited while it was in flight
EditedInFlight ==
  /\ call.fn = "settled" /\ call.ok
  /\ contentSignature(result.nodes, result.workflowVariables) # result.lastSavedSignature[1]
\* a step in which a save is accepted marks the content that was sent
MarksWhatWasSent ==
  (pc = "saving" /\ pc' = "ready" /\ call'.ok) =>
    /\ result'.lastSavedSignature[1].graph = result'.server.graph
    /\ result'.lastSavedSignature[1].variables = result'.server.workflow_md
    /\ result'.server = result.inflight[1].body
    /\ (contentSignature(result'.nodes, result'.workflowVariables)
          # result.inflight[1].signature => dirty(result'))
\* the Saved badge is shown only for the content the server holds
SavedMeansStored ==
  ShowsSaved => SaveBody(result.nodes, result.workflowVariables) = result.server

\* C30 as stated: an accepted save marks as saved the content that was sent,
\* so that after an edit made while the request was in flight the editor is
\* dirty and another save is eventually started; the Saved badge is never
\* shown while the content differs from the content the server holds.
C30_Original_SaveMarksSentContent ==
  /\ [][MarksWhatWasSent]_vars
  /\ []SavedMeansStored
  /\ (EditedInFlight ~> pc = "saving")

\* C30 as amended: the same, the next save being started unless the graph
\* has a circular dependency or the content is edited back to the saved one.
C30_SaveMarksSentContentUnlessBlocked ==
  /\ [][MarksWhatWasSent]_vars
  /\ []SavedMeansStored
  /\ (EditedInFlight ~> (pc = "saving" \/ ExecutionError(result) \/ ~dirty(result)))

C30_Witness ==
  /\ EditedInFlight
  /\ dirty(result)
  /\ result.timer
  /\ ~ExecutionError(result)
  /\ result.server # SaveBody(result.nodes, result.workflowVariables)
  /\ result.edits >= 2

====
